---- MODULE Spec2Model ----
(***************************************************************************)
(* go-loglater: a slog.Handler (LogCollector) that captures records with   *)
(* the journal of WithAttrs/WithGroup operations in effect, stores them in *)
(* a lock-protected RecordStorage with an optional cleanup policy, and     *)
(* replays them later (PlayLogsCtx) or returns them realized (GetLogs).    *)
(*                                                                         *)
(* Go slices are modelled as headers [arr, off, len] into heaps of backing *)
(* arrays, so that sharing of a backing array between two headers (and the *)
(* absence of it after slices.Clone) is part of the model.                 *)
(***************************************************************************)
EXTENDS Integers, Sequences, FiniteSets, TLC

\* ------------------------------------------------------------------ bounds
MaxInFlight == 2     \* calls into the collector running at the same time
MaxHandles == 3      \* Handle calls in the store specification
MaxReads == 1        \* GetAll calls in the store and aliasing specifications
ChainCalls == 5      \* calls made in the chain specification
JournalCalls == 4    \* calls made in the branching specification
AMaxDerives == 1     \* derivations in the aliasing specification
AMaxHandles == 2     \* Handle calls in the aliasing specification
MaxEdits == 1        \* caller edits of a returned collection
PolicyCalls == 3     \* calls made in the policy specification
MaxNow == 2          \* the latest time the clock reaches
MaxStarts == 2       \* invocations of StartCleanupWorker, the store's own included
AsyncCalls == 3      \* calls made in the asynchronous cleanup specification
WorkerCalls == 2     \* calls made in the worker life specification
ReplayCalls == 4     \* calls made in the replay specification
AdapterCalls == 3    \* calls made in the adapter specification
TagCalls == 4        \* calls made in the specification of records built by hand
BusyCalls == 2       \* calls made in the specification of all operations together
SnapCalls == 3       \* calls made in the specification of replays beside appends
EdgeCalls == 3           \* calls in the model of the limits at and below zero
RawCalls == 5        \* calls made in the specification of raw and realized reads
Prealloc == 1        \* the size given to WithPreallocation

\* ------------------------------------------------------- program constants
DefaultPrealloc == 10   \* make([]Record, 0, 10)
ChanCap == 1            \* make(chan struct{}, 1)
LevelInfo == 0          \* slog.LevelInfo
LevelWarn == 4          \* slog.LevelWarn

\* ---------------------------------------------------------------- slices
\* A slice header. arr = 0: nil slice; arr = -1: non-nil slice of capacity 0
\* (make(T, 0) or s[:0:0]); arr > 0: index of the backing array in its heap.
NilSlice == [arr |-> 0, off |-> 0, len |-> 0]
ZeroSlice == [arr |-> -1, off |-> 0, len |-> 0]

IsNil(s) == s.arr = 0

\* cap(s)
CapOf(mem, s) == IF s.arr <= 0 THEN 0 ELSE mem[s.arr].cap - s.off

\* the elements s[0], ..., s[len-1]
Elems(mem, s) ==
    IF s.len = 0 THEN <<>> ELSE SubSeq(mem[s.arr].data, s.off + 1, s.off + s.len)

\* s[from:] (from <= len(s))
SliceFrom(s, from) == [s EXCEPT !.off = s.off + from, !.len = s.len - from]

\* s[:0]
SliceEmpty(s) == [s EXCEPT !.len = 0]

\* runtime.growslice for small slices: double, or the needed length if larger
GrowCap(old, need) == IF need > old + old THEN need ELSE old + old

\* a new backing array
Alloc(mem, cap, data) ==
    [mem |-> Append(mem, [cap |-> cap, data |-> data]), arr |-> Len(mem) + 1]

\* data with xs written from (1-based) position at on, slots after it kept
WriteAt(data, at, xs) ==
    SubSeq(data, 1, at - 1) \o xs \o SubSeq(data, at + Len(xs), Len(data))

\* append(s, xs...): in place when the capacity allows, else a new array,
\* which the language lets be larger than growslice's rule by some slack
AppendGrow(mem, s, xs, slack) ==
    LET need == s.len + Len(xs) IN
    IF Len(xs) = 0 THEN [mem |-> mem, s |-> s]
    ELSE IF need <= CapOf(mem, s)
    THEN [mem |-> [mem EXCEPT ![s.arr].data = WriteAt(@, s.off + s.len + 1, xs)],
          s |-> [s EXCEPT !.len = need]]
    ELSE LET a == Alloc(mem, GrowCap(CapOf(mem, s), need) + slack, Elems(mem, s) \o xs)
         IN [mem |-> a.mem, s |-> [arr |-> a.arr, off |-> 0, len |-> need]]

AppendSl(mem, s, xs) == AppendGrow(mem, s, xs, 0)

\* s[i] = x (0-based i < len(s))
StoreAt(mem, s, i, x) == [mem EXCEPT ![s.arr].data[s.off + i + 1] = x]

\* slices.Clone(s): nil stays nil; otherwise append(s[:0:0], s...), a shallow
\* copy in a new array which "may have additional unused capacity" (slack)
CloneSl(mem, s, slack) ==
    IF IsNil(s) THEN [mem |-> mem, s |-> NilSlice]
    ELSE IF s.len = 0 THEN [mem |-> mem, s |-> ZeroSlice]
    ELSE LET a == Alloc(mem, s.len + slack, Elems(mem, s))
         IN [mem |-> a.mem, s |-> [arr |-> a.arr, off |-> 0, len |-> s.len]]

\* ------------------------------------------------------------ attributes
\* slog.Attr{Key, Value}; a Value is a string or a group of attributes
StringAttr(k, v) == [Key |-> k, Value |-> [kind |-> "string", s |-> v, g |-> <<>>]]

\* slog.Group(name, a)
Group(name, a) == [Key |-> name, Value |-> [kind |-> "group", s |-> "", g |-> <<a>>]]

RECURSIVE applyGroupsFrom(_, _, _)
applyGroupsFrom(result, groups, i) ==
    IF i < 1 THEN result
    ELSE applyGroupsFrom(Group(groups[i], result), groups, i - 1)

RECURSIVE applyGroupsOutsideIn(_, _)
applyGroupsOutsideIn(attr, groups) ==
    IF Len(groups) = 0 THEN attr
    ELSE applyGroupsOutsideIn(Group(groups[1], attr), Tail(groups))

\* applyGroups: nest attr under groups, built from the innermost group out
applyGroups(attr, groups) ==
    IF Len(groups) = 0 THEN attr ELSE applyGroupsFrom(attr, groups, Len(groups))

applyGroupsAll(attrs, groups) == [i \in 1..Len(attrs) |-> applyGroups(attrs[i], groups)]

\* ------------------------------------------------- operations and records
\* storage.Operation{Type, Attrs, Group}; Attrs is a slice into attrMem
OpAttrs(attrs) == [Type |-> "attrs", Attrs |-> attrs, Group |-> ""]
OpGroup(name) == [Type |-> "group", Attrs |-> NilSlice, Group |-> name]

\* storage.Record; Attrs is a slice into attrMem, Sequence a slice into opMem
MkRecord(time, level, msg, pcv, attrs, sequence) ==
    [Time |-> time, Level |-> level, Message |-> msg, PC |-> pcv,
     Attrs |-> attrs, Sequence |-> sequence]

\* a slog.Record as passed to Handle: its attributes are held by value
MkEvent(time, level, msg, pcv, attrs) ==
    [Time |-> time, Level |-> level, Message |-> msg, PC |-> pcv, attrs |-> attrs]

\* NewRecord for a non-nil *slog.Record: the fields are copied and the
\* attributes are collected into a new array of capacity r.NumAttrs()
NewRecord(am, sequence, ev) ==
    LET n == Len(ev.attrs)
        a == IF n = 0 THEN [mem |-> am, s |-> ZeroSlice]
             ELSE LET al == Alloc(am, n, ev.attrs)
                  IN [mem |-> al.mem, s |-> [arr |-> al.arr, off |-> 0, len |-> n]]
    IN [mem |-> a.mem,
        rec |-> MkRecord(ev.Time, ev.Level, ev.Message, ev.PC, a.s, sequence)]

\* a *slog.Record: nil, or the address of a slog.Record
NilPointer == [nil |-> TRUE, val |-> MkEvent(0, 0, 0, 0, <<>>)]
AddressOf(ev) == [nil |-> FALSE, val |-> ev]

\* NewRecord(ctx, sequence, r): nil for a nil r, else the new Record
NewRecordAt(am, sequence, r) ==
    IF r.nil
    THEN [nil |-> TRUE, mem |-> am, rec |-> MkRecord(0, 0, 0, 0, NilSlice, NilSlice)]
    ELSE LET nr == NewRecord(am, sequence, r.val)
         IN [nil |-> FALSE, mem |-> nr.mem, rec |-> nr.rec]

\* switch op.Type: the case taken, none for a type that is neither
opCaseAsGroup(op) == IF op.Type = "attrs" THEN "attrs" ELSE "group"

opCase(op) == IF op.Type \in {"attrs", "group"} THEN op.Type ELSE "none"

\* ---------------------------------------------------------------- Realize
\* the loop over r.Sequence: the stack of group names and the collector
\* attributes gathered so far
RECURSIVE RealizeLoop(_, _, _, _, _)
RealizeLoop(am, ops, i, currentGroups, collectorAttrs) ==
    IF i > Len(ops) THEN [groups |-> currentGroups, attrs |-> collectorAttrs]
    ELSE LET op == ops[i] IN
         IF opCase(op) = "attrs"
         THEN RealizeLoop(am, ops, i + 1, currentGroups,
                  collectorAttrs \o
                  (IF Len(currentGroups) > 0
                   THEN applyGroupsAll(Elems(am, op.Attrs), currentGroups)
                   ELSE Elems(am, op.Attrs)))
         ELSE IF opCase(op) = "group"
         THEN RealizeLoop(am, ops, i + 1, Append(currentGroups, op.Group), collectorAttrs)
         ELSE RealizeLoop(am, ops, i + 1, currentGroups, collectorAttrs)

\* result.Attrs before anything is appended: make([]slog.Attr, 0)
RealizeBaseReuse(r) == SliceEmpty(r.Attrs)

RealizeBase(r) == ZeroSlice

\* the loop over r.Attrs, appending each (nested under the final groups) to
\* result.Attrs; the elements of r.Attrs are read as the loop goes
RECURSIVE RealizeOwn(_, _, _, _, _)
RealizeOwn(am, res, r, i, groups) ==
    IF i > r.Attrs.len THEN [mem |-> am, s |-> res]
    ELSE LET attr == Elems(am, r.Attrs)[i]
             a == AppendSl(am, res,
                     << IF Len(groups) > 0 THEN applyGroups(attr, groups) ELSE attr >>)
         IN RealizeOwn(a.mem, a.s, r, i + 1, groups)

\* a result that carries no journal
RealizedSequenceNone(r) == NilSlice

\* the journal of Realize's result: Sequence: r.Sequence
RealizedSequence(r) == r.Sequence

\* (r *Record).Realize(): the new attribute memory and the returned Record
Realize(am, om, r) ==
    LET lp == RealizeLoop(am, Elems(om, r.Sequence), 1, <<>>, <<>>)
        a1 == AppendSl(am, RealizeBase(r), lp.attrs)
        a2 == RealizeOwn(a1.mem, a1.s, r, 1, lp.groups)
    IN [mem |-> a2.mem,
        rec |-> MkRecord(r.Time, r.Level, r.Message, r.PC, a2.s, RealizedSequence(r))]

RECURSIVE RealizeAll(_, _, _, _, _)
\* the range loop of GetLogs with its variable shared by the iterations
RealizeAllFirst(am, om, rs, i, out) ==
    IF Len(rs) = 0 THEN [mem |-> am, recs |-> out]
    ELSE LET z == Realize(am, om, rs[1])
         IN [mem |-> z.mem, recs |-> [j \in 1..Len(rs) |-> z.rec]]

\* Realize applied to rs[i..], appending the results to out
RealizeAll(am, om, rs, i, out) ==
    IF i > Len(rs) THEN [mem |-> am, recs |-> out]
    ELSE LET z == Realize(am, om, rs[i])
         IN RealizeAll(z.mem, om, rs, i + 1, Append(out, z.rec))

\* flattenAttrs of the tests: the leaves of an attribute with their dotted
\* paths, kept here in order of appearance
RECURSIVE flattenAttrs(_, _)
RECURSIVE flattenAll(_, _)
flattenAttrs(attr, prefix) ==
    LET key == Append(prefix, attr.Key) IN
    IF attr.Value.kind = "group" THEN flattenAll(attr.Value.g, key)
    ELSE << [path |-> key, val |-> attr.Value.s] >>

flattenAll(attrs, prefix) ==
    IF Len(attrs) = 0 THEN <<>>
    ELSE flattenAttrs(Head(attrs), prefix) \o flattenAll(Tail(attrs), prefix)

\* --------------------------------------------- the downstream slog.Handler
\* A handler of the standard library as the collector sees it: the derive
\* calls it was built by, and what those calls mean to it (open groups, and
\* the attributes already bound, each under the groups open when bound).
NoHandler == [nil |-> TRUE, calls |-> <<>>, groups |-> <<>>, pre |-> <<>>,
              level |-> LevelInfo]
BaseHandler == [nil |-> FALSE, calls |-> <<>>, groups |-> <<>>, pre |-> <<>>,
                level |-> LevelInfo]

\* a handler made with slog.HandlerOptions{Level: level}
LevelHandler(level) == [BaseHandler EXCEPT !.level = level]

\* what h.Enabled(ctx, level) answers
HEnabled(h, level) == level >= h.level

HWithAttrs(h, attrs) ==
    [h EXCEPT !.calls = Append(@, [kind |-> "attrs", attrs |-> attrs, name |-> ""]),
              !.pre = @ \o flattenAll(attrs, h.groups)]

HWithGroup(h, name) ==
    [h EXCEPT !.calls = Append(@, [kind |-> "group", attrs |-> <<>>, name |-> name]),
              !.groups = IF name = "" THEN @ ELSE Append(@, name)]

\* what h.Handle(ctx, ev) receives and renders
HHandle(h, ev) ==
    [calls |-> h.calls, ev |-> ev, out |-> h.pre \o flattenAll(ev.attrs, h.groups)]

\* ------------------------------------------------------------------ state
VARIABLES
    attrMem,      \* heap of []slog.Attr backing arrays
    opMem,        \* heap of []Operation backing arrays
    recMem,       \* heap of []Record backing arrays
    collectors,   \* the LogCollector objects; collectors[1] is the root
    records,      \* records[s]: the field records of RecordStorage s
    mu,           \* mu[s]: the RWMutex of RecordStorage s
    cfg,          \* options of storage 1: cleanupFunc, asyncCleanupEnabled
    cleanupCh,    \* number of requests buffered in cleanupCh (capacity 1)
    ctxDone,      \* the storage context is cancelled
    asyncCleanupRunning,
    wpc,          \* wpc[w]: where invocation w of StartCleanupWorker is
    timer,        \* timer[w]: the debounce timer of invocation w
    now,          \* the time: what time.Now() returns
    calls,        \* the calls in progress, each with its position and locals
    returned,     \* what GetAll, GetLogs and PlayLogsCtx have returned
    lastDerive,   \* the last WithAttrs/WithGroup: receiver and result
    live,         \* what the downstream handlers were given, in order
    played,       \* what replay targets were given, in order
    captured,     \* history: per Handle call, the event, the chain it came by
                  \* and the number of collectors there were
    history,      \* history: the Messages in the order their records were added
    dropped,      \* history: the Messages a cleanup policy invocation removed
    reads,        \* number of GetAll/GetLogs/PlayLogs calls begun
    edits         \* number of caller edits of returned collections

heapVars == <<attrMem, opMem, recMem>>
storeVars == <<records, mu, cfg>>
workerVars == <<cleanupCh, ctxDone, asyncCleanupRunning, wpc, timer, now>>
callVars == <<calls, returned, lastDerive>>
logVars == <<live, played>>
ghostVars == <<captured, history, dropped, reads, edits>>
vars == <<heapVars, collectors, storeVars, workerVars, callVars, logVars, ghostVars>>

\* lock holders: Handle call n is n, the r-th reading call is -r, the
\* goroutine in the worker loop is Worker
Worker == 0

\* the invocations of StartCleanupWorker; NewRecordStorage makes the first
Spawned == 1
Starts == 1..MaxStarts

ZeroRecord == MkRecord(0, 0, 0, 0, NilSlice, NilSlice)
NoEvent == MkEvent(0, 0, 0, 0, <<>>)

\* a call in progress: pc is where it is, the rest its locals
\* the error values: nil, context.Canceled, context.DeadlineExceeded,
\* PlayLogsCtx's own, Handle's own, and the one a failing handler returns
NoError == ""
Canceled == "context canceled"
DeadlineExceeded == "context deadline exceeded"
HandlerIsNil == "handler is nil"
RecordCreationFailed == "failed to create record"
UnexpectedEOF == "unexpected EOF"
\* the run-time panic of a slice expression
SliceBounds == "slice bounds out of range"

NewCall(id, op, c) ==
    [id |-> id, op |-> op, pc |-> "", c |-> c, rec |-> ZeroRecord, ev |-> NoEvent,
     loc |-> NilSlice, i |-> 0, h |-> NoHandler, ctxErr |-> NoError,
     ctx0 |-> NoError]

Unlocked == [writers |-> {}, readers |-> {}]

\* cleanup policies: WithMaxSize(k), WithMaxAge(d), WithCleanupFunc of the
\* level filter of the tests, or none configured
NoCleanup == [kind |-> "none", k |-> 0]
MaxSizeCleanup(k) == [kind |-> "maxSize", k |-> k]
MaxAgeCleanup(d) == [kind |-> "maxAge", k |-> d]
LevelFilterCleanup(level) == [kind |-> "levelFilter", k |-> level]

\* a RecordStorage built with no options
DefaultCfg == [cleanup |-> NoCleanup, async |-> FALSE, prealloc |-> DefaultPrealloc]

cfgOf(sid) == IF sid = 1 THEN cfg ELSE DefaultCfg

\* NewLogCollector(baseHandler, WithStorage(NewRecordStorage(opts...)))
InitWith(c, h) ==
    /\ attrMem = <<>>
    /\ opMem = <<>>
    /\ recMem = << [cap |-> c.prealloc, data |-> <<>>] >>
    /\ collectors = << [store |-> 1, handler |-> h, sequence |-> ZeroSlice,
                        parent |-> 0, ref |-> BaseHandler] >>
    /\ records = << [arr |-> 1, off |-> 0, len |-> 0] >>
    /\ mu = << Unlocked >>
    /\ cfg = c
    /\ cleanupCh = 0
    /\ ctxDone = FALSE
    /\ asyncCleanupRunning = FALSE
    /\ wpc = [w \in Starts |-> IF w = Spawned /\ c.async THEN "start" ELSE "off"]
    /\ timer = [w \in Starts |-> "stopped"]
    /\ now = 0
    /\ calls = {}
    /\ returned = {}
    /\ lastDerive = [recv |-> 0, got |-> 0]
    /\ live = <<>>
    /\ played = <<>>
    /\ captured = <<>>
    /\ history = <<>>
    /\ dropped = {}
    /\ reads = 0
    /\ edits = 0

\* ------------------------------------------------------------- the views
storeOf(c) == collectors[c].store

\* a Record with its slices followed: the values a reader of it sees
DeepOp(op) == [Type |-> op.Type, Attrs |-> Elems(attrMem, op.Attrs), Group |-> op.Group]

DeepOps(s) == LET ops == Elems(opMem, s) IN [i \in 1..Len(ops) |-> DeepOp(ops[i])]

DeepRec(r) == [Time |-> r.Time, Level |-> r.Level, Message |-> r.Message, PC |-> r.PC,
               Attrs |-> Elems(attrMem, r.Attrs), Sequence |-> DeepOps(r.Sequence)]

DeepColl(s) == LET rs == Elems(recMem, s) IN [i \in 1..Len(rs) |-> DeepRec(rs[i])]

Messages(s) == LET rs == Elems(recMem, s) IN [i \in 1..Len(rs) |-> rs[i].Message]

Range(f) == {f[i] : i \in DOMAIN f}

\* the calls at position at
At(at) == {k \in calls : k.pc = at}

\* call k moves on as k2, or returns
Moves(k, k2) == calls' = (calls \ {k}) \cup {k2}
Returns(k) == calls' = calls \ {k}

\* ------------------------------------------------- WithAttrs / WithGroup
\* unused capacity slices.Clone may leave in the copy
CloneSlack == {0, 1}

\* sequenceCopy := slices.Clone(c.sequence); append(sequenceCopy, op)
DeriveSequenceNoClone(om, seq, op, slack) == AppendGrow(om, seq, <<op>>, slack)

\* (the copy is private to the call whatever its capacity, which is left out)
DeriveSequence(om, seq, op, slack) ==
    LET cl == CloneSl(om, seq, 0) IN AppendSl(cl.mem, cl.s, <<op>>)

\* store: c.store in the derived collector
DeriveStoreFresh(c) == Len(records) + 1

DeriveStore(c) == collectors[c].store

\* the storages after a derivation (a storage that is new is one built by
\* NewRecordStorage())
StoresAfter(sid) ==
    IF sid <= Len(records)
    THEN [rm |-> recMem, recs |-> records, mus |-> mu]
    ELSE LET a == Alloc(recMem, DefaultPrealloc, <<>>)
         IN [rm |-> a.mem,
             recs |-> Append(records, [arr |-> a.arr, off |-> 0, len |-> 0]),
             mus |-> Append(mu, Unlocked)]

\* the tail of WithAttrs and WithGroup: the new LogCollector
Derived(c, newHandler, newRef, seq) ==
    LET sid == DeriveStore(c)
        st == StoresAfter(sid)
    IN /\ collectors' = Append(collectors,
              [store |-> sid, handler |-> newHandler, sequence |-> seq.s,
               parent |-> c, ref |-> newRef])
       /\ opMem' = seq.mem
       /\ recMem' = st.rm
       /\ records' = st.recs
       /\ mu' = st.mus
       /\ lastDerive' = [recv |-> c, got |-> Len(collectors) + 1]

\* the receiver returned as it is
Underived(c) ==
    /\ lastDerive' = [recv |-> c, got |-> c]
    /\ UNCHANGED <<heapVars, collectors, records, mu>>

\* if len(attrs) == 0
NoAttrsNever(attrs) == FALSE

NoAttrs(attrs) == Len(attrs) = 0

\* if name == ""
NoName(name) == name = ""

\* c.WithAttrs(attrs), attrs a slice the caller made for the call. The call
\* reads the receiver's fields, which nothing writes after construction, and
\* writes only what it allocates, so it is one step
WithAttrs(c, attrs, slack) ==
    /\ IF NoAttrs(attrs)
       THEN Underived(c)
       ELSE LET al == Alloc(attrMem, Len(attrs), attrs)
                asl == [arr |-> al.arr, off |-> 0, len |-> Len(attrs)]
                h == collectors[c].handler
            IN /\ attrMem' = al.mem
               /\ Derived(c,
                      IF h.nil THEN NoHandler ELSE HWithAttrs(h, attrs),
                      HWithAttrs(collectors[c].ref, attrs),
                      DeriveSequence(opMem, collectors[c].sequence, OpAttrs(asl), slack))
    /\ UNCHANGED <<cfg, workerVars, calls, returned, logVars, ghostVars>>

\* c.WithGroup(name)
WithGroup(c, name, slack) ==
    /\ IF NoName(name)
       THEN Underived(c)
       ELSE LET h == collectors[c].handler
            IN /\ attrMem' = attrMem
               /\ Derived(c,
                      IF h.nil THEN NoHandler ELSE HWithGroup(h, name),
                      HWithGroup(collectors[c].ref, name),
                      DeriveSequence(opMem, collectors[c].sequence, OpGroup(name), slack))
    /\ UNCHANGED <<cfg, workerVars, calls, returned, logVars, ghostVars>>

\* ------------------------------------------------------------ the RWMutex
CanLockAlways(sid) == TRUE

\* s.mu.Lock() can return
CanLock(sid) == mu[sid].writers = {} /\ mu[sid].readers = {}

\* s.mu.RLock() can return
CanRLock(sid) == mu[sid].writers = {}

\* ------------------------------------------------------- cleanup policies
\* a slice expression that is never out of range
SliceOutOfRangeNever(s, low) == FALSE

\* records[low:] panics: low is not within 0..len(records)
SliceOutOfRange(s, low) == low < 0 \/ low > s.len

\* maxSizeCleanup(maxSize)(records), where its slice expression is in range
maxSizeCleanupKeepOldest(maxSize, s) ==
    IF s.len <= maxSize THEN s ELSE [s EXCEPT !.len = maxSize]

maxSizeCleanup(maxSize, s) ==
    IF s.len <= maxSize THEN s ELSE SliceFrom(s, s.len - maxSize)

\* a comparison that takes the cutoff itself for after
AfterOrAt(time, cutoff) == time >= cutoff

\* records[i].Time.After(cutoff)
After(time, cutoff) == time > cutoff

\* maxAgeCleanup(maxAge)(records) when time.Now() is t: the index of the
\* first record whose Time is after the cutoff, from index i on
RECURSIVE FirstAfter(_, _, _)
FirstAfter(rs, cutoff, i) ==
    IF i > Len(rs) THEN i
    ELSE IF After(rs[i].Time, cutoff) THEN i
    ELSE FirstAfter(rs, cutoff, i + 1)

maxAgeCleanup(maxAge, rm, s, t) ==
    IF s.len = 0 THEN s
    ELSE LET i == FirstAfter(Elems(rm, s), t - maxAge, 1) - 1
         IN IF i >= s.len THEN SliceEmpty(s)
            ELSE IF i = 0 THEN s
            ELSE SliceFrom(s, i)

\* the level filter given to WithCleanupFunc: var result []Record, and
\* result = append(result, r) for each r of rs[i..] at the level or above
RECURSIVE levelFilter(_, _, _, _, _)
levelFilter(rm, level, rs, i, result) ==
    IF i > Len(rs) THEN [mem |-> rm, s |-> result]
    ELSE IF rs[i].Level >= level
    THEN LET a == AppendSl(rm, result, << rs[i] >>)
         IN levelFilter(a.mem, level, rs, i + 1, a.s)
    ELSE levelFilter(rm, level, rs, i + 1, result)

\* s.cleanupFunc(s.records) run when time.Now() is t: the record memory
\* after it and the slice it returns
cleanupFunc(policy, rm, s, t) ==
    IF policy.kind = "maxSize" THEN [mem |-> rm, s |-> maxSizeCleanup(policy.k, s)]
    ELSE IF policy.kind = "maxAge" THEN [mem |-> rm, s |-> maxAgeCleanup(policy.k, rm, s, t)]
    ELSE IF policy.kind = "levelFilter"
    THEN levelFilter(rm, policy.k, Elems(rm, s), 1, NilSlice)
    ELSE [mem |-> rm, s |-> s]

\* s.cleanupFunc(s.records) panics: of the policies, maxSizeCleanup has a
\* slice expression with a computed bound, records[len(records)-maxSize:]
cleanupPanics(policy, s) ==
    /\ policy.kind = "maxSize"
    /\ s.len > policy.k
    /\ SliceOutOfRange(s, s.len - policy.k)

\* performCleanup that never calls the policy
InvokesNever(sid) == FALSE

\* performCleanup's test: s.cleanupFunc != nil && len(s.records) > 0
Invokes(sid) == cfgOf(sid).cleanup.kind # "none" /\ records[sid].len > 0

\* performCleanup is left by a panic of the policy
Panics(sid) == Invokes(sid) /\ cleanupPanics(cfgOf(sid).cleanup, records[sid])

\* the body of performCleanup, under the lock: a panic of the policy leaves
\* s.records unassigned
Cleaned(sid) ==
    IF Invokes(sid) /\ ~Panics(sid)
    THEN cleanupFunc(cfgOf(sid).cleanup, recMem, records[sid], now)
    ELSE [mem |-> recMem, s |-> records[sid]]

\* performCleanup's assignment and deferred Unlock, by lock holder id
RunCleanup(sid, id) ==
    LET after == Cleaned(sid) IN
    /\ recMem' = after.mem
    /\ records' = [records EXCEPT ![sid] = after.s]
    /\ mu' = [mu EXCEPT ![sid].writers = @ \ {id}]
    /\ dropped' = dropped \cup
           (Range(Messages(records[sid])) \
            {r.Message : r \in Range(Elems(after.mem, after.s))})

\* ----------------------------------------------------------------- Handle
\* what a call returned: a collection handed to the caller (with the
\* history length when it was read, or the number of records replayed) and
\* an error
Handed(k, kind, coll) ==
    [id |-> k.id, kind |-> kind, c |-> k.c, coll |-> coll, at |-> k.i,
     err |-> NoError, enabled |-> FALSE, ctxErr |-> k.ctxErr, ctx0 |-> k.ctx0]

\* what Handle returned
HandleResult(k, err) == [Handed(k, "Handle", NilSlice) EXCEPT !.err = err]

\* where the caller of Append goes once it has returned: a goroutine that
\* called it on the store returns, Handle goes on to c.handler.Handle or
\* returns
AfterAppend(k) ==
    IF k.op = "Append"
    THEN /\ Returns(k)
         /\ returned' = returned
    ELSE IF collectors[k.c].handler.nil
    THEN /\ Returns(k)
         /\ returned' = returned \cup {HandleResult(k, NoError)}
    ELSE /\ Moves(k, [k EXCEPT !.pc = "forward", !.loc = NilSlice])
         /\ returned' = returned

\* the call is left by a panic of the cleanup policy, which unwinds Append
\* and Handle to a caller that recovers it
Aborts(k) ==
    /\ Returns(k)
    /\ returned' = returned \cup
          {[Handed(k, "panic", NilSlice) EXCEPT !.err = SliceBounds]}

\* the journal Handle gives the record: slices.Clone(c.sequence)
HandleSequence(om, seq, slack) == CloneSl(om, seq, slack)

\* Handle up to the call of c.store.Append: the stored record is built
HandleBegin(c, ev, slack) ==
    /\ LET sq == HandleSequence(opMem, collectors[c].sequence, slack)
           nr == NewRecordAt(attrMem, sq.s, AddressOf(ev))
           k == NewCall(Len(captured) + 1, "Handle", c)
       IN /\ opMem' = sq.mem
          /\ attrMem' = nr.mem
          /\ IF nr.nil
             THEN /\ calls' = calls
                  /\ returned' = returned \cup {HandleResult(k, RecordCreationFailed)}
             ELSE /\ calls' = calls \cup
                        {[k EXCEPT !.pc = "append_lock", !.rec = nr.rec, !.ev = ev]}
                  /\ returned' = returned
    /\ captured' = Append(captured, [ev |-> ev, c |-> c, ref |-> collectors[c].ref,
                                      colls |-> Len(collectors)])
    /\ UNCHANGED <<recMem, collectors, storeVars, workerVars, lastDerive, logVars,
                   history, dropped, reads, edits>>

\* a slice literal []T{xs...} in a composite literal; nil when left out
Literal(mem, xs) ==
    IF Len(xs) = 0 THEN [mem |-> mem, s |-> NilSlice]
    ELSE LET a == Alloc(mem, Len(xs), xs)
         IN [mem |-> a.mem, s |-> [arr |-> a.arr, off |-> 0, len |-> Len(xs)]]

\* the operations of an OperationJournal literal, from the i-th on
RECURSIVE JournalLiteral(_, _, _, _)
JournalLiteral(am, lits, i, out) ==
    IF i > Len(lits) THEN [mem |-> am, ops |-> out]
    ELSE LET a == Literal(am, lits[i].Attrs)
         IN JournalLiteral(a.mem, lits, i + 1,
                Append(out, [Type |-> lits[i].Type, Attrs |-> a.s,
                             Group |-> lits[i].Group]))

\* store.Append(&rec) by a goroutine that holds the store of collector c,
\* up to the Lock
StoreAppend(c, rec) ==
    /\ calls' = calls \cup
          {[NewCall(Len(history) + 1, "Append", c) EXCEPT
               !.pc = "append_lock", !.rec = rec]}
    /\ UNCHANGED <<recMem, collectors, storeVars, workerVars, returned, lastDerive,
                   logVars, ghostVars>>

\* record := storage.Record{Time, Level, Message, Attrs: own, Sequence: lits}
\* and store.Append(&record), as the tests build records by hand
AppendLiteral(c, own, lits) ==
    LET n == Len(history) + 1
        ow == Literal(attrMem, own)
        jl == JournalLiteral(ow.mem, lits, 1, <<>>)
        sq == Literal(opMem, jl.ops)
    IN
    /\ attrMem' = jl.mem
    /\ opMem' = sq.mem
    /\ StoreAppend(c, MkRecord(n, LevelInfo, n, 0, ow.s, sq.s))

\* rec := logs[i]; rec.Message = ...; store.Append(&rec) with an element of
\* a collection that was returned
AppendReturned(c, r, i) ==
    /\ i < r.coll.len
    /\ UNCHANGED <<attrMem, opMem>>
    /\ StoreAppend(c, [Elems(recMem, r.coll)[i + 1] EXCEPT !.Message = Len(history) + 1])

\* Append: s.mu.Lock() returns; s.records is read for the append
AppendLock(k) ==
    LET sid == storeOf(k.c) IN
    /\ k.pc = "append_lock"
    /\ CanLock(sid)
    /\ mu' = [mu EXCEPT ![sid].writers = @ \cup {k.id}]
    /\ Moves(k, [k EXCEPT !.pc = "append_write", !.loc = records[sid]])
    /\ UNCHANGED <<heapVars, collectors, records, cfg, workerVars, returned, lastDerive,
                   logVars, ghostVars>>

\* Append's s.mu.Unlock() were it deferred to the return
AppendUnlockDeferred(m, id) == m

\* Append's s.mu.Unlock(), before the cleanup is triggered
AppendUnlock(m, id) == [m EXCEPT !.writers = @ \ {id}]

\* Append's test after the Unlock: s.cleanupFunc != nil
AppendTriggersNever(sid) == FALSE

AppendTriggers(sid) == cfgOf(sid).cleanup.kind # "none"

\* Append: s.records = append(s.records, *record); s.mu.Unlock(); then the
\* test of s.cleanupFunc and, in triggerCleanup, of s.asyncCleanupEnabled
AppendWrite(k) ==
    LET sid == storeOf(k.c)
        ap == AppendSl(recMem, k.loc, << k.rec >>)
    IN
    /\ k.pc = "append_write"
    /\ recMem' = ap.mem
    /\ records' = [records EXCEPT ![sid] = ap.s]
    /\ mu' = [mu EXCEPT ![sid] = AppendUnlock(@, k.id)]
    /\ history' = Append(history, k.rec.Message)
    /\ IF ~AppendTriggers(sid) THEN AfterAppend(k)
       ELSE /\ returned' = returned
            /\ IF cfgOf(sid).async
               THEN Moves(k, [k EXCEPT !.pc = "trigger_send", !.loc = NilSlice])
               ELSE Moves(k, [k EXCEPT !.pc = "cleanup_lock", !.loc = NilSlice])
    /\ UNCHANGED <<attrMem, opMem, collectors, cfg, workerVars, lastDerive, logVars,
                   captured, dropped, reads, edits>>

\* the send case is not ready: the buffer of cleanupCh, made with capacity
\* ChanCap, is full
ChanFullNever(ch) == FALSE

ChanFull(ch) == ch >= ChanCap

\* select { case s.cleanupCh <- struct{}{}: default: } on a channel that
\* buffers ch requests
SendCleanupDropped(ch) == ch

SendCleanup(ch) == IF ChanFull(ch) THEN ch ELSE ch + 1

\* triggerCleanup, asynchronous: the non-blocking send on cleanupCh
TriggerSend(k) ==
    /\ k.pc = "trigger_send"
    /\ cleanupCh' = SendCleanup(cleanupCh)
    /\ AfterAppend(k)
    /\ UNCHANGED <<heapVars, collectors, storeVars, ctxDone, asyncCleanupRunning,
                   wpc, timer, now, lastDerive, logVars, ghostVars>>

\* triggerCleanup, synchronous: performCleanup's s.mu.Lock() returns
SyncCleanupLock(k) ==
    LET sid == storeOf(k.c) IN
    /\ k.pc = "cleanup_lock"
    /\ CanLock(sid)
    /\ mu' = [mu EXCEPT ![sid].writers = @ \cup {k.id}]
    /\ Moves(k, [k EXCEPT !.pc = "cleanup_run"])
    /\ UNCHANGED <<heapVars, collectors, records, cfg, workerVars, returned, lastDerive,
                   logVars, ghostVars>>

\* performCleanup's body and Unlock, on the appending goroutine
SyncCleanupRun(k) ==
    /\ k.pc = "cleanup_run"
    /\ RunCleanup(storeOf(k.c), k.id)
    /\ IF Panics(storeOf(k.c)) THEN Aborts(k) ELSE AfterAppend(k)
    /\ UNCHANGED <<attrMem, opMem, collectors, cfg, workerVars, lastDerive, logVars,
                   captured, history, reads, edits>>

\* what a handler is given: the derive calls that built it, the event, and
\* the call that gave it
Submitted(k, x) == [by |-> k.id, calls |-> x.calls, ev |-> x.ev, out |-> x.out]

\* return c.handler.Handle(ctx, r)
ForwardResultDropped(err) == NoError

ForwardResult(err) == err

\* the same, where an error of the handler takes the record of the call
\* out of the store again
HandleForwardUndo(k, err) ==
    /\ k.pc = "forward"
    /\ live' = Append(live, Submitted(k, HHandle(collectors[k.c].handler, k.ev)))
    /\ Returns(k)
    /\ returned' = returned \cup {HandleResult(k, ForwardResult(err))}
    /\ records' = IF err = NoError \/ records[storeOf(k.c)].len = 0 THEN records
                  ELSE [records EXCEPT ![storeOf(k.c)].len = @ - 1]
    /\ UNCHANGED <<heapVars, collectors, mu, cfg, workerVars, lastDerive, played,
                   ghostVars>>

\* c.handler.Handle(ctx, r) with the event Handle was given, returning err,
\* and the return
HandleForward(k, err) ==
    /\ k.pc = "forward"
    /\ live' = Append(live, Submitted(k, HHandle(collectors[k.c].handler, k.ev)))
    /\ Returns(k)
    /\ returned' = returned \cup {HandleResult(k, ForwardResult(err))}
    /\ UNCHANGED <<heapVars, collectors, storeVars, workerVars, lastDerive, played,
                   ghostVars>>

\* ---------------------------------------------------------------- Enabled
EnabledAlways(c, level) == TRUE

\* c.Enabled(ctx, level)
Enabled(c, level) ==
    IF collectors[c].handler.nil THEN TRUE
    ELSE HEnabled(collectors[c].handler, level)

\* a caller asks c.Enabled(ctx, level) and is answered
EnabledCall(c, level) ==
    LET k == NewCall(0 - (reads + 1), "Enabled", c) IN
    /\ returned' = returned \cup
          {[Handed(k, "Enabled", NilSlice) EXCEPT !.at = level,
                                                  !.enabled = Enabled(c, level)]}
    /\ reads' = reads + 1
    /\ UNCHANGED <<heapVars, collectors, storeVars, workerVars, calls, lastDerive,
                   logVars, captured, history, dropped, edits>>

\* ----------------------------------------------------------------- GetAll
\* a call that starts with c.store.GetAll(): GetAll itself, GetLogs, or
\* PlayLogsCtx with handler h; s.mu.RLock() is awaited next
ReadBegin(op, c, h) ==
    /\ calls' = calls \cup {[NewCall(0 - (reads + 1), op, c) EXCEPT
                                !.pc = "getall_rlock", !.h = h]}
    /\ reads' = reads + 1
    /\ UNCHANGED <<heapVars, collectors, storeVars, workerVars, returned, lastDerive,
                   logVars, captured, history, dropped, edits>>

\* GetAll: s.mu.RLock() returns
GetAllRLock(k) ==
    LET sid == storeOf(k.c) IN
    /\ k.pc = "getall_rlock"
    /\ CanRLock(sid)
    /\ mu' = [mu EXCEPT ![sid].readers = @ \cup {k.id}]
    /\ Moves(k, [k EXCEPT !.pc = "getall_clone"])
    /\ UNCHANGED <<heapVars, collectors, records, cfg, workerVars, returned, lastDerive,
                   logVars, ghostVars>>

\* what GetAll returns: slices.Clone(s.records)
GetAllResult(rm, s) == CloneSl(rm, s, 0)

\* GetAll: the clone, the deferred RUnlock and the return to the caller
GetAllClone(k) ==
    LET sid == storeOf(k.c)
        cl == GetAllResult(recMem, records[sid])
        k2 == [k EXCEPT !.loc = cl.s, !.i = Len(history)]
    IN
    /\ k.pc = "getall_clone"
    /\ recMem' = cl.mem
    /\ mu' = [mu EXCEPT ![sid].readers = @ \ {k.id}]
    /\ IF k.op = "GetAll"
       THEN /\ returned' = returned \cup {Handed(k2, "GetAll", cl.s)}
            /\ Returns(k)
       ELSE /\ returned' = returned
            /\ Moves(k, IF k.op = "GetLogs" THEN [k2 EXCEPT !.pc = "realize"]
                         ELSE [k2 EXCEPT !.pc = "play", !.i = 0])
    /\ UNCHANGED <<attrMem, opMem, collectors, records, cfg, workerVars, lastDerive,
                   logVars, ghostVars>>

\* ---------------------------------------------------------------- GetLogs
\* GetLogs after GetAll: realizedRecords[i] = record.Realize() for each
GetLogsRealize(k) ==
    LET raw == Elems(recMem, k.loc)
        rz == RealizeAll(attrMem, opMem, raw, 1, <<>>)
        out == IF Len(raw) = 0 THEN [mem |-> recMem, s |-> ZeroSlice]
               ELSE LET a == Alloc(recMem, Len(raw), rz.recs)
                    IN [mem |-> a.mem, s |-> [arr |-> a.arr, off |-> 0, len |-> Len(raw)]]
    IN
    /\ k.pc = "realize"
    /\ attrMem' = rz.mem
    /\ recMem' = out.mem
    /\ returned' = returned \cup {Handed(k, "GetLogs", out.s)}
    /\ Returns(k)
    /\ UNCHANGED <<opMem, collectors, storeVars, workerVars, lastDerive, logVars, ghostVars>>

\* ------------------------------------------------------------ PlayLogsCtx
\* the handler the journal of a stored record rebuilds from handler h
RECURSIVE ReplaySequence(_, _, _)
\* the target handler is used as it is for every record
ReplaySequenceNone(h, ops, i) == h

ReplaySequence(h, ops, i) ==
    IF i > Len(ops) THEN h
    ELSE LET op == ops[i] IN
         ReplaySequence(
             IF opCase(op) = "attrs" THEN HWithAttrs(h, Elems(attrMem, op.Attrs))
             ELSE IF opCase(op) = "group" THEN HWithGroup(h, op.Group)
             ELSE h,
             ops, i + 1)

\* slog.NewRecord(stored.Time, stored.Level, stored.Message, stored.PC) with
\* the stored attributes added
ReplayEventNoPC(stored) ==
    MkEvent(stored.Time, stored.Level, stored.Message, 0, Elems(attrMem, stored.Attrs))

ReplayEvent(stored) ==
    MkEvent(stored.Time, stored.Level, stored.Message, stored.PC,
            Elems(attrMem, stored.Attrs))

\* what PlayLogsCtx returned: the error, with the records it ranged over
\* and how many of them it had forwarded
Replayed(k, err) == [Handed(k, "PlayLogs", k.loc) EXCEPT !.err = err]

\* if handler == nil
HandlerAbsentNever(h) == FALSE

HandlerAbsent(h) == h.nil

\* PlayLogsCtx(ctx, handler) with a context whose Err() is ctxErr: a nil
\* handler is refused at once, otherwise c.store.GetAll() is called
PlayLogsCtx(c, ctxErr, h) ==
    LET k == [NewCall(0 - (reads + 1), "PlayLogs", c) EXCEPT
                 !.pc = "getall_rlock", !.h = h, !.ctxErr = ctxErr, !.ctx0 = ctxErr]
    IN
    /\ IF HandlerAbsent(h)
       THEN /\ calls' = calls
            /\ returned' = returned \cup {Replayed(k, HandlerIsNil)}
       ELSE /\ calls' = calls \cup {k}
            /\ returned' = returned
    /\ reads' = reads + 1
    /\ UNCHANGED <<heapVars, collectors, storeVars, workerVars, lastDerive, logVars,
                   captured, history, dropped, edits>>

\* case <-ctx.Done() of the select in the loop can be taken
CtxDoneNever(ctxErr) == FALSE

CtxDone(ctxErr) == ctxErr # NoError

\* the range expression evaluated again at every iteration
RangedLive(k) == Elems(recMem, records[storeOf(k.c)])

\* what the loop ranges over: for _, stored := range c.store.GetAll()
\* evaluates GetAll once, before the first iteration
Ranged(k) == Elems(recMem, k.loc)

\* PlayLogsCtx at the top of the loop over the records GetAll returned:
\* return nil after the last; else the test of ctx.Done(), the replay of
\* the record's operations on the handler, and the call of Handle
PlayStep(k) ==
    LET snap == Ranged(k)
        i == k.i + 1
    IN
    /\ k.pc = "play"
    /\ IF i > Len(snap)
       THEN /\ Returns(k)
            /\ played' = played
            /\ returned' = returned \cup {Replayed(k, NoError)}
       ELSE IF CtxDone(k.ctxErr)
       THEN /\ Returns(k)
            /\ played' = played
            /\ returned' = returned \cup {Replayed(k, k.ctxErr)}
       ELSE /\ played' = Append(played, Submitted(k,
                   HHandle(ReplaySequence(k.h, Elems(opMem, snap[i].Sequence), 1),
                           ReplayEvent(snap[i]))))
            /\ Moves(k, [k EXCEPT !.pc = "play_handle"])
            /\ returned' = returned
    /\ UNCHANGED <<heapVars, collectors, storeVars, workerVars, lastDerive, live,
                   ghostVars>>

\* what PlayLogsCtx does with the error Handle returned: it goes on to the
\* next record
HandleErrorIgnored(err) == FALSE

\* if err := currentHandler.Handle(ctx, r); err != nil
HandleError(err) == err # NoError

\* the range loop goes on to the next record
NextIndexSkip(i) == i + 2

NextIndex(i) == i + 1

\* PlayLogsCtx: currentHandler.Handle(ctx, r) returns err
PlayHandled(k, err) ==
    /\ k.pc = "play_handle"
    /\ IF HandleError(err)
       THEN /\ Returns(k)
            /\ returned' = returned \cup {Replayed(k, err)}
       ELSE /\ Moves(k, [k EXCEPT !.pc = "play", !.i = NextIndex(k.i)])
            /\ returned' = returned
    /\ UNCHANGED <<heapVars, collectors, storeVars, workerVars, lastDerive, logVars,
                   ghostVars>>

\* the context PlayLogsCtx was given ends while the call is in progress:
\* its owner cancels it, or its deadline passes
CancelReplay(k, e) ==
    /\ k.op = "PlayLogs"
    /\ k.ctxErr = NoError
    /\ Moves(k, [k EXCEPT !.ctxErr = e])
    /\ UNCHANGED <<heapVars, collectors, storeVars, workerVars, returned, lastDerive,
                   logVars, ghostVars>>

\* ------------------------------------------------------ StartCleanupWorker
\* A goroutine calls s.StartCleanupWorker(): invocation w begins. (Invocation
\* Spawned is the one NewRecordStorage makes; it begins with the store.)
StartCleanupWorker(w) ==
    /\ w # Spawned
    /\ wpc[w] = "off"
    /\ wpc' = [wpc EXCEPT ![w] = "start"]
    /\ UNCHANGED <<heapVars, collectors, storeVars, cleanupCh, ctxDone,
                   asyncCleanupRunning, timer, now, callVars, logVars, ghostVars>>

\* s.asyncCleanupRunning.CompareAndSwap(false, true) succeeds
CompareAndSwapAlways(running) == TRUE

CompareAndSwap(running) == ~running

\* the CompareAndSwap succeeds: the timer is created and stopped, and the
\* loop is entered
WorkerStart(w) ==
    /\ wpc[w] = "start"
    /\ CompareAndSwap(asyncCleanupRunning)
    /\ asyncCleanupRunning' = TRUE
    /\ timer' = [timer EXCEPT ![w] = "stopped"]
    /\ wpc' = [wpc EXCEPT ![w] = "select"]
    /\ UNCHANGED <<heapVars, collectors, storeVars, cleanupCh, ctxDone, now, callVars,
                   logVars, ghostVars>>

\* the CompareAndSwap fails: "Already running, exit"
WorkerAlreadyRunning(w) ==
    /\ wpc[w] = "start"
    /\ ~CompareAndSwap(asyncCleanupRunning)
    /\ wpc' = [wpc EXCEPT ![w] = "returned"]
    /\ UNCHANGED <<heapVars, collectors, storeVars, cleanupCh, ctxDone,
                   asyncCleanupRunning, timer, now, callVars, logVars, ghostVars>>

\* case <-s.cleanupCh: the timer is stopped, drained and reset
WorkerSignal(w) ==
    /\ wpc[w] = "select"
    /\ cleanupCh > 0
    /\ cleanupCh' = cleanupCh - 1
    /\ timer' = [timer EXCEPT ![w] = "armed"]
    /\ UNCHANGED <<heapVars, collectors, storeVars, ctxDone, asyncCleanupRunning, wpc,
                   now, callVars, logVars, ghostVars>>

\* case <-timer.C: performCleanup is called and waits for the lock
WorkerTimer(w) ==
    /\ wpc[w] = "select"
    /\ timer[w] = "fired"
    /\ timer' = [timer EXCEPT ![w] = "stopped"]
    /\ wpc' = [wpc EXCEPT ![w] = "cleanup_lock"]
    /\ UNCHANGED <<heapVars, collectors, storeVars, cleanupCh, ctxDone,
                   asyncCleanupRunning, now, callVars, logVars, ghostVars>>

\* performCleanup on the worker: s.mu.Lock() returns
WorkerCleanupLock(w) ==
    /\ wpc[w] = "cleanup_lock"
    /\ CanLock(1)
    /\ mu' = [mu EXCEPT ![1].writers = @ \cup {Worker}]
    /\ wpc' = [wpc EXCEPT ![w] = "cleanup_run"]
    /\ UNCHANGED <<heapVars, collectors, records, cfg, cleanupCh, ctxDone,
                   asyncCleanupRunning, timer, now, callVars, logVars, ghostVars>>

\* performCleanup's body and Unlock on the worker; back to the select
WorkerCleanupRun(w) ==
    /\ wpc[w] = "cleanup_run"
    /\ RunCleanup(1, Worker)
    /\ wpc' = [wpc EXCEPT ![w] = "select"]
    /\ UNCHANGED <<attrMem, opMem, collectors, cfg, cleanupCh, ctxDone,
                   asyncCleanupRunning, timer, now, callVars, logVars, captured, history,
                   reads, edits>>

\* the same without the deferred Store(false)
WorkerCancelKeepsFlag(w) ==
    /\ wpc[w] = "select"
    /\ ctxDone
    /\ timer' = [timer EXCEPT ![w] = "stopped"]
    /\ wpc' = [wpc EXCEPT ![w] = "exited"]
    /\ UNCHANGED <<heapVars, collectors, storeVars, cleanupCh, ctxDone,
                   asyncCleanupRunning, now, callVars, logVars, ghostVars>>

\* case <-s.ctx.Done(): the timer is stopped and drained, the deferred
\* Store(false) runs, the goroutine ends
WorkerCancel(w) ==
    /\ wpc[w] = "select"
    /\ ctxDone
    /\ timer' = [timer EXCEPT ![w] = "stopped"]
    /\ asyncCleanupRunning' = FALSE
    /\ wpc' = [wpc EXCEPT ![w] = "exited"]
    /\ UNCHANGED <<heapVars, collectors, storeVars, cleanupCh, ctxDone, now, callVars,
                   logVars, ghostVars>>

\* the debounce period passes: the runtime sends on timer.C
TimerFire(w) ==
    /\ timer[w] = "armed"
    /\ timer' = [timer EXCEPT ![w] = "fired"]
    /\ UNCHANGED <<heapVars, collectors, storeVars, cleanupCh, ctxDone,
                   asyncCleanupRunning, wpc, now, callVars, logVars, ghostVars>>

\* the owner of the context given by WithContext cancels it
Cancel ==
    /\ ~ctxDone
    /\ ctxDone' = TRUE
    /\ UNCHANGED <<heapVars, collectors, storeVars, cleanupCh, asyncCleanupRunning,
                   wpc, timer, now, callVars, logVars, ghostVars>>

\* time passes
Tick ==
    /\ now < MaxNow
    /\ now' = now + 1
    /\ UNCHANGED <<heapVars, collectors, storeVars, cleanupCh, ctxDone,
                   asyncCleanupRunning, wpc, timer, callVars, logVars, ghostVars>>

\* ------------------------------------- callers editing what they were given
\* records[i].Message = "modified", on a collection r that was returned
EditElement(r, i) ==
    /\ i < r.coll.len
    /\ recMem' = StoreAt(recMem, r.coll, i,
                         [Elems(recMem, r.coll)[i + 1] EXCEPT !.Message = 0 - 1])
    /\ edits' = edits + 1
    /\ UNCHANGED <<attrMem, opMem, collectors, storeVars, workerVars, callVars, logVars,
                   captured, history, dropped, reads>>

\* records[i].Attrs[0] = slog.String("edited", "!")
EditOwnAttr(r, i) ==
    /\ i < r.coll.len
    /\ LET e == Elems(recMem, r.coll)[i + 1] IN
       /\ e.Attrs.len > 0
       /\ attrMem' = StoreAt(attrMem, e.Attrs, 0, StringAttr("edited", "!"))
    /\ edits' = edits + 1
    /\ UNCHANGED <<opMem, recMem, collectors, storeVars, workerVars, callVars, logVars,
                   captured, history, dropped, reads>>

\* records[i].Sequence[0] = Operation{Type: "group", Group: "edited"}
EditJournal(r, i) ==
    /\ i < r.coll.len
    /\ LET e == Elems(recMem, r.coll)[i + 1] IN
       /\ e.Sequence.len > 0
       /\ opMem' = StoreAt(opMem, e.Sequence, 0, OpGroup("edited"))
    /\ edits' = edits + 1
    /\ UNCHANGED <<attrMem, recMem, collectors, storeVars, workerVars, callVars, logVars,
                   captured, history, dropped, reads>>

\* --------------------------------------------------------- specifications
\* the inputs
AttrArgs == {<< StringAttr("global", "v") >>, << StringAttr("x", "1") >>}
GroupArgs == {"g", "h"}
OwnArgs == {<<>>, << StringAttr("y", "2") >>}
PolicyArgs == {NoCleanup, MaxSizeCleanup(1), MaxSizeCleanup(2)}

\* the n-th log call: its time, message and call site are its own
EventOf(n, level, own) == MkEvent(n, level, n, 100 + n, own)

CanCall == Cardinality(calls) < MaxInFlight

\* the calls made so far that derived a collector, logged or read
Made == (Len(collectors) - 1) + Len(captured) + reads

\* journals written by hand: the types of the collector, and one that is
\* neither (with both of its other fields set)
LitAttrs(attrs) == [Type |-> "attrs", Attrs |-> attrs, Group |-> ""]
LitGroup(name) == [Type |-> "group", Attrs |-> <<>>, Group |-> name]
LitOther == [Type |-> "other", Attrs |-> << StringAttr("u", "9") >>, Group |-> "invalid"]

\* the records written by hand: their own attributes and their journal
LiteralArgs ==
    LET a == LitAttrs(<< StringAttr("global", "v") >>)
        g == LitGroup("g")
        o == LitOther
        y == << StringAttr("y", "2") >>
    IN {[own |-> y, journal |-> << a, o, g >>],
        [own |-> <<>>, journal |-> << g, o, a >>],
        [own |-> y, journal |-> << o >>],
        [own |-> y, journal |-> << g >>],
        [own |-> <<>>, journal |-> << g >>]}

\* The storage under concurrent producers, readers and the cleanup worker:
\* records logged through the root collector, under every cleanup
\* configuration (asynchronous cleanup only with a policy to run).
StoreCfgs ==
    {[cleanup |-> pol, async |-> a, prealloc |-> Prealloc] :
        pol \in PolicyArgs, a \in BOOLEAN} \
    {[cleanup |-> NoCleanup, async |-> TRUE, prealloc |-> Prealloc]}

Init == \E c \in StoreCfgs : InitWith(c, NoHandler)

Next ==
    \/ /\ CanCall
       /\ Len(captured) < MaxHandles
       /\ HandleBegin(1, EventOf(Len(captured) + 1, LevelInfo, <<>>), 0)
    \/ \E k \in calls : AppendLock(k)
    \/ \E k \in calls : AppendWrite(k)
    \/ \E k \in calls : TriggerSend(k)
    \/ \E k \in calls : SyncCleanupLock(k)
    \/ \E k \in calls : SyncCleanupRun(k)
    \/ CanCall /\ reads < MaxReads /\ ReadBegin("GetAll", 1, NoHandler)
    \/ \E k \in calls : GetAllRLock(k)
    \/ \E k \in calls : GetAllClone(k)
    \/ WorkerStart(Spawned)
    \/ WorkerSignal(Spawned)
    \/ WorkerTimer(Spawned)
    \/ WorkerCleanupLock(Spawned)
    \/ WorkerCleanupRun(Spawned)
    \/ TimerFire(Spawned)

Spec == Init /\ [][Next]_vars


\* One goroutine building a chain of handlers, as a logger does: each
\* derivation (an empty one included) is made on the newest collector and
\* records are logged through it; afterwards GetLogs and PlayLogs on the root.
Newest == Len(collectors)

\* the collectors there are
Collectors == 1..Len(collectors)

InitChain == InitWith(DefaultCfg, BaseHandler)

NextChain ==
    \/ \E attrs \in AttrArgs \cup {<<>>}, slack \in CloneSlack :
          /\ calls = {} /\ reads = 0 /\ Made < ChainCalls
          /\ WithAttrs(Newest, attrs, slack)
    \/ \E name \in GroupArgs \cup {""}, slack \in CloneSlack :
          /\ calls = {} /\ reads = 0 /\ Made < ChainCalls
          /\ WithGroup(Newest, name, slack)
    \/ \E own \in OwnArgs :
          /\ calls = {} /\ reads = 0 /\ Made < ChainCalls
          /\ HandleBegin(Newest, EventOf(Len(captured) + 1, LevelInfo, own), 0)
    \/ \E k \in calls : AppendLock(k)
    \/ \E k \in calls : AppendWrite(k)
    \/ \E k \in calls : HandleForward(k, NoError)
    \/ calls = {} /\ Made < ChainCalls /\ ReadBegin("GetLogs", 1, NoHandler)
    \/ calls = {} /\ Made < ChainCalls /\ ReadBegin("PlayLogs", 1, BaseHandler)
    \/ \E k \in calls : GetAllRLock(k)
    \/ \E k \in calls : GetAllClone(k)
    \/ \E k \in calls : GetLogsRealize(k)
    \/ \E k \in calls : PlayStep(k)
    \/ \E k \in calls : PlayHandled(k, NoError)

SpecChain == InitChain /\ [][NextChain]_vars

\* Records built by hand: one goroutine appends records with journals of
\* any operation types to the store of a collector, reads them back with
\* GetLogs, replays them, and appends what GetLogs returned to the store.
TagsMade == Len(history) + reads

NextTags ==
    \/ \E lit \in LiteralArgs :
          /\ calls = {} /\ TagsMade < TagCalls
          /\ AppendLiteral(1, lit.own, lit.journal)
    \/ \E r \in returned, i \in 0..1 :
          /\ calls = {} /\ TagsMade < TagCalls
          /\ r.kind = "GetLogs"
          /\ AppendReturned(1, r, i)
    \/ \E k \in calls : AppendLock(k)
    \/ \E k \in calls : AppendWrite(k)
    \/ calls = {} /\ TagsMade < TagCalls /\ ReadBegin("GetLogs", 1, NoHandler)
    \/ calls = {} /\ TagsMade < TagCalls /\ ReadBegin("PlayLogs", 1, BaseHandler)
    \/ \E k \in calls : GetAllRLock(k)
    \/ \E k \in calls : GetAllClone(k)
    \/ \E k \in calls : GetLogsRealize(k)
    \/ \E k \in calls : PlayStep(k)
    \/ \E k \in calls : PlayHandled(k, NoError)

SpecTags == InitWith(DefaultCfg, NoHandler) /\ [][NextTags]_vars

\* Raw and realized reads: one goroutine builds a chain of collectors and
\* logs through it while another calls GetLogs and GetAll on the root, one
\* call after the other, at any moment.
Writing == {k \in calls : k.op = "Handle"}
Reading == {k \in calls : k.op # "Handle"}

NextRaw ==
    \/ /\ Writing = {} /\ Made < RawCalls
       /\ WithAttrs(Newest, << StringAttr("x", "1") >>, 0)
    \/ /\ Writing = {} /\ Made < RawCalls
       /\ WithGroup(Newest, "g", 0)
    \/ \E own \in OwnArgs :
          /\ Writing = {} /\ Made < RawCalls
          /\ HandleBegin(Newest, EventOf(Len(captured) + 1, LevelInfo, own), 0)
    \/ \E k \in calls : AppendLock(k)
    \/ \E k \in calls : AppendWrite(k)
    \/ Reading = {} /\ Made < RawCalls /\ ReadBegin("GetLogs", 1, NoHandler)
    \/ Reading = {} /\ Made < RawCalls /\ ReadBegin("GetAll", 1, NoHandler)
    \/ \E k \in calls : GetAllRLock(k)
    \/ \E k \in calls : GetAllClone(k)
    \/ \E k \in calls : GetLogsRealize(k)

SpecRaw == InitWith(DefaultCfg, NoHandler) /\ [][NextRaw]_vars

\* Replays beside appends: one goroutine logs through the root collector
\* of a store with no policy or with max-count(1) run inline, while one or
\* two others replay the store.
SnapCfgs ==
    {[cleanup |-> pol, async |-> FALSE, prealloc |-> DefaultPrealloc] :
        pol \in {NoCleanup, MaxSizeCleanup(1)}}

InitSnap == \E c \in SnapCfgs : InitWith(c, NoHandler)

NextSnap ==
    \/ /\ Writing = {} /\ Made < SnapCalls
       /\ HandleBegin(1, EventOf(Len(captured) + 1, LevelInfo, <<>>), 0)
    \/ \E k \in calls : AppendLock(k)
    \/ \E k \in calls : AppendWrite(k)
    \/ \E k \in calls : SyncCleanupLock(k)
    \/ \E k \in calls : SyncCleanupRun(k)
    \/ /\ Cardinality(Reading) < 2 /\ Made < SnapCalls
       /\ PlayLogsCtx(1, NoError, BaseHandler)
    \/ \E k \in calls : GetAllRLock(k)
    \/ \E k \in calls : GetAllClone(k)
    \/ \E k \in calls : PlayStep(k)
    \/ \E k \in calls : PlayHandled(k, NoError)

SpecSnap == InitSnap /\ [][NextSnap]_vars

\* The collector as a slog.Handler: one goroutine derives collectors from
\* any collector there is (with empty arguments too), logs through any of
\* them and asks any of them whether a level is enabled; the collector was
\* built with no downstream handler or with one of some level, whose Handle
\* may fail.
Levels == {LevelInfo, LevelWarn}

InitAdapter ==
    \E h \in {NoHandler, BaseHandler, LevelHandler(LevelWarn)} : InitWith(DefaultCfg, h)

NextAdapter ==
    \/ \E c \in Collectors, attrs \in {<< StringAttr("x", "1") >>, <<>>} :
          /\ calls = {} /\ Made < AdapterCalls
          /\ WithAttrs(c, attrs, 0)
    \/ \E c \in Collectors, name \in {"g", ""} :
          /\ calls = {} /\ Made < AdapterCalls
          /\ WithGroup(c, name, 0)
    \/ \E c \in Collectors, own \in OwnArgs :
          /\ calls = {} /\ Made < AdapterCalls
          /\ HandleBegin(c, EventOf(Len(captured) + 1, LevelInfo, own), 0)
    \/ \E k \in calls : AppendLock(k)
    \/ \E k \in calls : AppendWrite(k)
    \/ \E k \in calls, err \in {NoError, UnexpectedEOF} : HandleForward(k, err)
    \/ \E c \in Collectors, level \in Levels :
          /\ calls = {} /\ Made < AdapterCalls
          /\ EnabledCall(c, level)

SpecAdapter == InitAdapter /\ [][NextAdapter]_vars

\* Replay with a context: one goroutine logs records through the root
\* collector or a collector derived from it and calls PlayLogsCtx on the
\* root, with a context that is live or already cancelled and a handler
\* that may be nil.
NextReplay ==
    \/ /\ calls = {} /\ reads = 0 /\ Made < ReplayCalls
       /\ WithGroup(Newest, "g", 0)
    \/ \E own \in OwnArgs :
          /\ calls = {} /\ Made < ReplayCalls
          /\ HandleBegin(Newest, EventOf(Len(captured) + 1, LevelInfo, own), 0)
    \/ \E k \in calls : AppendLock(k)
    \/ \E k \in calls : AppendWrite(k)
    \/ \E k \in calls : HandleForward(k, NoError)
    \/ \E ctxErr \in {NoError, Canceled}, h \in {BaseHandler, NoHandler} :
          /\ calls = {} /\ Made < ReplayCalls
          /\ PlayLogsCtx(1, ctxErr, h)
    \/ \E k \in calls : GetAllRLock(k)
    \/ \E k \in calls : GetAllClone(k)
    \/ \E k \in calls : PlayStep(k)
    \/ \E k \in calls, err \in {NoError, UnexpectedEOF} : PlayHandled(k, err)
    \/ \E k \in calls, e \in {Canceled, DeadlineExceeded} : CancelReplay(k, e)

SpecReplay == InitChain /\ [][NextReplay]_vars

\* The same where every call that has begun goes on, and the Handle call of
\* the target handler returns: the goroutine is scheduled, and the lock it
\* may wait for is given back.
ReplayStep ==
    \E k \in calls :
        \/ AppendLock(k)
        \/ AppendWrite(k)
        \/ HandleForward(k, NoError)
        \/ GetAllRLock(k)
        \/ GetAllClone(k)
        \/ PlayStep(k)
        \/ \E err \in {NoError, UnexpectedEOF} : PlayHandled(k, err)

SpecReplayFair == InitChain /\ [][NextReplay]_vars /\ WF_vars(ReplayStep)

\* Branching: collectors derived from any existing collector (siblings,
\* chains), with or without a downstream handler, records logged through any
\* of them by goroutines running together, then GetLogs on the root.
InitJournal == \E h \in {NoHandler, BaseHandler} : InitWith(DefaultCfg, h)

NextJournal ==
    \/ \E c \in Collectors, slack \in CloneSlack :
          /\ reads = 0 /\ Made < JournalCalls
          /\ WithAttrs(c, << StringAttr("x", "1") >>, slack)
    \/ \E c \in Collectors, slack \in CloneSlack :
          /\ reads = 0 /\ Made < JournalCalls
          /\ WithGroup(c, "g", slack)
    \/ \E c \in Collectors :
          /\ CanCall /\ reads = 0 /\ Made < JournalCalls
          /\ HandleBegin(c, EventOf(Len(captured) + 1, LevelInfo, <<>>), 0)
    \/ \E k \in calls : AppendLock(k)
    \/ \E k \in calls : AppendWrite(k)
    \/ \E k \in calls : HandleForward(k, NoError)
    \/ calls = {} /\ Made < JournalCalls /\ ReadBegin("GetLogs", 1, NoHandler)
    \/ \E k \in calls : GetAllRLock(k)
    \/ \E k \in calls : GetAllClone(k)
    \/ \E k \in calls : GetLogsRealize(k)

SpecJournal == InitJournal /\ [][NextJournal]_vars

\* Callers of GetAll keeping and editing what they were given, while records
\* are logged through a chain of collectors and the synchronous cleanup runs.
AliasCfgs ==
    {[cleanup |-> pol, async |-> FALSE, prealloc |-> DefaultPrealloc] :
        pol \in {NoCleanup, MaxSizeCleanup(1)}}

InitAlias == \E c \in AliasCfgs : InitWith(c, NoHandler)

NextAlias ==
    \/ /\ calls = {} /\ Len(collectors) <= AMaxDerives
       /\ WithAttrs(Newest, << StringAttr("x", "1") >>, 0)
    \/ \E own \in OwnArgs :
          /\ CanCall /\ Len(captured) < AMaxHandles
          /\ HandleBegin(Newest, EventOf(Len(captured) + 1, LevelInfo, own), 0)
    \/ \E k \in calls : AppendLock(k)
    \/ \E k \in calls : AppendWrite(k)
    \/ \E k \in calls : SyncCleanupLock(k)
    \/ \E k \in calls : SyncCleanupRun(k)
    \/ CanCall /\ reads < MaxReads /\ ReadBegin("GetAll", 1, NoHandler)
    \/ \E k \in calls : GetAllRLock(k)
    \/ \E k \in calls : GetAllClone(k)
    \/ \E r \in returned, i \in 0..1 : edits < MaxEdits /\ EditElement(r, i)
    \/ \E r \in returned, i \in 0..1 : edits < MaxEdits /\ EditOwnAttr(r, i)
    \/ \E r \in returned, i \in 0..1 : edits < MaxEdits /\ EditJournal(r, i)

SpecAlias == InitAlias /\ [][NextAlias]_vars

\* The cleanup policies run inline: one goroutine appends records of any
\* level, stamped with the time of now or of earlier, to a store with
\* synchronous cleanup, and reads the store, while time passes.
PolicyCfgs ==
    {[cleanup |-> pol, async |-> FALSE, prealloc |-> DefaultPrealloc] :
        pol \in {MaxSizeCleanup(1), MaxAgeCleanup(1), LevelFilterCleanup(LevelWarn)}}

InitPolicy == \E c \in PolicyCfgs : InitWith(c, NoHandler)

NextPolicy ==
    \/ \E t \in 0..now, level \in {LevelInfo, LevelWarn} :
          /\ calls = {} /\ Made < PolicyCalls
          /\ HandleBegin(1, MkEvent(t, level, Len(captured) + 1, 100 + Len(captured) + 1, <<>>), 0)
    \/ \E k \in calls : AppendLock(k)
    \/ \E k \in calls : AppendWrite(k)
    \/ \E k \in calls : SyncCleanupLock(k)
    \/ \E k \in calls : SyncCleanupRun(k)
    \/ calls = {} /\ Made < PolicyCalls /\ ReadBegin("GetAll", 1, NoHandler)
    \/ \E k \in calls : GetAllRLock(k)
    \/ \E k \in calls : GetAllClone(k)
    \/ calls = {} /\ Tick

SpecPolicy == InitPolicy /\ [][NextPolicy]_vars

\* Asynchronous cleanup with the context never cancelled: producers and
\* readers running together with the worker NewRecordStorage started and
\* its debounce timer. Every step of a call that has begun, of the worker
\* and of the timer is taken eventually; whether a call begins is up to the
\* callers.
AsyncCfgs ==
    {[cleanup |-> pol, async |-> TRUE, prealloc |-> DefaultPrealloc] :
        pol \in {MaxSizeCleanup(0), MaxSizeCleanup(1)}}

InitAsync == \E c \in AsyncCfgs : InitWith(c, NoHandler)

CallStep ==
    \E k \in calls :
        \/ AppendLock(k)
        \/ AppendWrite(k)
        \/ TriggerSend(k)
        \/ GetAllRLock(k)
        \/ GetAllClone(k)

WorkerStep(w) ==
    \/ WorkerStart(w)
    \/ WorkerSignal(w)
    \/ WorkerTimer(w)
    \/ WorkerCleanupLock(w)
    \/ WorkerCleanupRun(w)

NextAsync ==
    \/ /\ CanCall /\ Made < AsyncCalls
       /\ HandleBegin(1, EventOf(Len(captured) + 1, LevelInfo, <<>>), 0)
    \/ CanCall /\ Made < AsyncCalls /\ ReadBegin("GetAll", 1, NoHandler)
    \/ CallStep
    \/ WorkerStep(Spawned)
    \/ TimerFire(Spawned)

SpecAsync ==
    /\ InitAsync
    /\ [][NextAsync]_vars
    /\ WF_vars(CallStep)
    /\ WF_vars(WorkerStep(Spawned))
    /\ WF_vars(TimerFire(Spawned))

\* The worker's life: asynchronous cleanup where the owner of the context
\* may cancel it at any moment and goroutines may call StartCleanupWorker
\* again, before or after the spawned invocation has ended, while a
\* goroutine appends to the store and reads it.
NextWorker ==
    \/ /\ calls = {} /\ Made < WorkerCalls
       /\ HandleBegin(1, EventOf(Len(captured) + 1, LevelInfo, <<>>), 0)
    \/ calls = {} /\ Made < WorkerCalls /\ ReadBegin("GetAll", 1, NoHandler)
    \/ CallStep
    \/ \E w \in Starts : StartCleanupWorker(w)
    \/ \E w \in Starts : WorkerStep(w)
    \/ \E w \in Starts : WorkerAlreadyRunning(w)
    \/ \E w \in Starts : WorkerCancel(w)
    \/ \E w \in Starts : TimerFire(w)
    \/ Cancel

SpecWorker == InitAsync /\ [][NextWorker]_vars

\* The same under fair scheduling: the calls that have begun go on, the
\* invocations of StartCleanupWorker go on (at the select, with one of the
\* cases that are ready), and an armed timer fires.
WorkerRuns ==
    \E w \in Starts : WorkerStep(w) \/ WorkerAlreadyRunning(w) \/ WorkerCancel(w)

TimerRuns == \E w \in Starts : TimerFire(w)

SpecWorkerFair ==
    /\ InitAsync
    /\ [][NextWorker]_vars
    /\ WF_vars(CallStep)
    /\ WF_vars(WorkerRuns)
    /\ WF_vars(TimerRuns)

\* All operations together: goroutines log through the root collector
\* (built with no downstream handler, or with one whose Handle may fail),
\* read the store with GetAll and GetLogs and replay it, at the same time,
\* on a store with a max-count policy run inline or by the worker, whose
\* context may be cancelled at any moment.
BusyCfgs ==
    {[cleanup |-> MaxSizeCleanup(1), async |-> a, prealloc |-> DefaultPrealloc] :
        a \in BOOLEAN}

InitBusy == \E c \in BusyCfgs, h \in {NoHandler, BaseHandler} : InitWith(c, h)

\* the steps of a call that has begun
StepOf(k) ==
    \/ AppendLock(k)
    \/ AppendWrite(k)
    \/ TriggerSend(k)
    \/ SyncCleanupLock(k)
    \/ SyncCleanupRun(k)
    \/ \E err \in {NoError, UnexpectedEOF} : HandleForward(k, err)
    \/ GetAllRLock(k)
    \/ GetAllClone(k)
    \/ GetLogsRealize(k)
    \/ PlayStep(k)
    \/ PlayHandled(k, NoError)

NextBusy ==
    \/ /\ CanCall /\ Made < BusyCalls
       /\ HandleBegin(1, EventOf(Len(captured) + 1, LevelInfo, <<>>), 0)
    \/ \E op \in {"GetAll", "GetLogs"} :
          CanCall /\ Made < BusyCalls /\ ReadBegin(op, 1, NoHandler)
    \/ CanCall /\ Made < BusyCalls /\ PlayLogsCtx(1, NoError, BaseHandler)
    \/ \E k \in calls : StepOf(k)
    \/ WorkerStep(Spawned)
    \/ WorkerCancel(Spawned)
    \/ TimerFire(Spawned)
    \/ Cancel

SpecBusy == InitBusy /\ [][NextBusy]_vars

\* ------------------------------------------------------------- properties
\* the Handle calls (with their Append) that have not returned
Appending == {k \in calls : k.op = "Handle"}

\* the messages GetAll would return if it ran now
GetAllNow ==
    LET cl == GetAllResult(recMem, records[1])
        rs == Elems(cl.mem, cl.s)
    IN [i \in 1..Len(rs) |-> rs[i].Message]

\* the messages of a collection that was returned
MessagesOf(r) == Messages(r.coll)

\* the last n of a sequence, all of it if it is shorter
LastN(q, n) == IF Len(q) <= n THEN q ELSE SubSeq(q, Len(q) - n + 1, Len(q))

\* C3: with no cleanup policy, once the Append calls that were issued have
\* returned, GetAll returns exactly one record per call, none lost and none
\* twice, whatever the interleaving; and a GetAll that returned earlier
\* holds exactly the records appended before it read.
C3_AppendDurability ==
    cfg.cleanup.kind = "none" =>
        /\ Appending = {} =>
              /\ Len(GetAllNow) = Len(captured)
              /\ Range(GetAllNow) = 1..Len(captured)
        /\ \A r \in returned :
              r.kind = "GetAll" => MessagesOf(r) = SubSeq(history, 1, r.at)

\* three appends by overlapping producers, stored in another order than
\* they were issued, and a GetAll that returned all three
C3_Witness ==
    /\ cfg.cleanup.kind = "none"
    /\ calls = {}
    /\ Len(captured) = 3
    /\ history # << 1, 2, 3 >>
    /\ \E r \in returned : r.kind = "GetAll" /\ r.coll.len = 3

\* C4: with max-count(K) and synchronous cleanup, once the Append calls
\* have returned GetAll holds at most K records, and they are the K most
\* recently inserted (all, if fewer were inserted) in insertion order.
C4_MaxCountKeepsNewest ==
    (cfg.cleanup.kind = "maxSize" /\ ~cfg.async /\ Appending = {}) =>
        /\ Len(GetAllNow) <= cfg.cleanup.k
        /\ GetAllNow = LastN(history, cfg.cleanup.k)

\* K = 2, three appends returned, the first one removed
C4_Witness ==
    /\ cfg.cleanup.kind = "maxSize" /\ cfg.cleanup.k = 2 /\ ~cfg.async
    /\ Appending = {}
    /\ Len(history) = 3
    /\ GetAllNow = << history[2], history[3] >>
    /\ dropped = {history[1]}

\* the append history without what a policy invocation removed
NotDropped == SelectSeq(history, LAMBDA m : m \notin dropped)

\* C5: in every state the store holds, in append order, exactly the appended
\* records that no invocation of the cleanup policy has removed, under
\* synchronous and background cleanup alike.
C5_LostOnlyByCleanup ==
    /\ Messages(records[1]) = NotDropped
    /\ dropped \subseteq Range(history)

\* the background worker has removed a record while a producer is inside
\* Append and a record it did not remove is in the store
C5_Witness ==
    /\ cfg.async
    /\ dropped # {}
    /\ records[1].len > 0
    /\ \E k \in calls : k.pc = "append_write"

\* the GetLogs results, and the records in one of them
GetLogsResults == {r \in returned : r.kind = "GetLogs"}
RecordsOf(r) == Elems(recMem, r.coll)

\* C1: what replay gives the target handler for a record is what the chain
\* that captured it gave the downstream handler: the same derive calls (kind,
\* argument, order), counted from the bare target for every record, then an
\* event with the stored time, level, message, call site and own attributes.
C1_ReplayIssuesLiveCalls ==
    \A i \in DOMAIN played :
        LET p == played[i]
            m == p.ev.Message
        IN /\ m \in DOMAIN captured
           /\ p.calls = captured[m].ref.calls
           /\ p.ev = captured[m].ev
           /\ \E j \in DOMAIN live : live[j].calls = p.calls /\ live[j].ev = p.ev

\* two records captured at different depths of a chain have been replayed,
\* one of them by two derive calls and with an attribute of its own
C1_Witness ==
    \E i, j \in DOMAIN played :
        /\ played[i].calls # played[j].calls
        /\ Len(played[j].calls) = 2
        /\ Len(played[j].ev.attrs) = 1

\* C2: the attributes of a record GetLogs returns, read as group-path/key/
\* value entries in order, are the entries the live handler chain built by
\* the same derivations renders for the same event.
C2_RealizeMatchesLiveChain ==
    \A r \in GetLogsResults :
        \A i \in 1..r.coll.len :
            LET rec == RecordsOf(r)[i]
                m == rec.Message
            IN flattenAll(Elems(attrMem, rec.Attrs), <<>>)
                   = HHandle(captured[m].ref, captured[m].ev).out

\* GetLogs returned a record captured under two nested groups with a bound
\* attribute inside them
C2_Witness ==
    \E r \in GetLogsResults :
        \E i \in 1..r.coll.len :
            LET m == RecordsOf(r)[i].Message IN
            /\ Len(captured[m].ref.groups) = 2
            /\ \E e \in Range(HHandle(captured[m].ref, captured[m].ev).out) :
                  Len(e.path) = 3

\* attribute a under the group names of path, the first name outermost
RECURSIVE Nest(_, _)
Nest(path, a) == IF Len(path) = 0 THEN a ELSE Group(Head(path), Nest(Tail(path), a))

NestAll(path, attrs) == [i \in 1..Len(attrs) |-> Nest(path, attrs[i])]

\* the group names of the derive calls ds[1..n], in order
RECURSIVE GroupsUpTo(_, _)
GroupsUpTo(ds, n) ==
    IF n = 0 THEN <<>>
    ELSE IF ds[n].kind = "group" THEN Append(GroupsUpTo(ds, n - 1), ds[n].name)
    ELSE GroupsUpTo(ds, n - 1)

\* the attributes bound by the derive calls ds[1..n], each under the groups
\* that were open when it was bound
RECURSIVE BoundUpTo(_, _)
BoundUpTo(ds, n) ==
    IF n = 0 THEN <<>>
    ELSE IF ds[n].kind = "attrs"
    THEN BoundUpTo(ds, n - 1) \o NestAll(GroupsUpTo(ds, n - 1), ds[n].attrs)
    ELSE BoundUpTo(ds, n - 1)

\* what the record of capture m is to realize to
Expected(m) ==
    LET ds == captured[m].ref.calls
    IN BoundUpTo(ds, Len(ds)) \o NestAll(GroupsUpTo(ds, Len(ds)), captured[m].ev.attrs)

\* C8: the attributes of a realized record are the attributes bound by the
\* derivations, in binding order, each under the groups open when it was
\* bound (outermost first), then the record's own attributes under the
\* groups open at the capture.
C8_RealizeOrderAndNesting ==
    \A r \in GetLogsResults :
        \A i \in 1..r.coll.len :
            LET rec == RecordsOf(r)[i]
            IN Elems(attrMem, rec.Attrs) = Expected(rec.Message)

\* withAttrs(global=v), withGroup(g), withAttrs(x=1), own attribute y=2:
\* GetLogs returned global=v, g.x=1, g.y=2
C8_Witness ==
    \E r \in GetLogsResults :
        \E i \in 1..r.coll.len :
            Elems(attrMem, RecordsOf(r)[i].Attrs) =
                << StringAttr("global", "v"),
                   Group("g", StringAttr("x", "1")),
                   Group("g", StringAttr("y", "2")) >>

\* a Record with the values of its attributes, as Realize left it in its
\* attribute memory am
RealizedValue(am, rec) ==
    [Time |-> rec.Time, Level |-> rec.Level, Message |-> rec.Message, PC |-> rec.PC,
     Attrs |-> Elems(am, rec.Attrs)]

\* C9: the step in which GetLogs realizes the records GetAll gave it changes
\* no source record (fields, own attributes, journal), in the snapshot or in
\* the store, and Realize called again on each source record afterwards
\* gives a result equal to the one returned.
C9_RealizePure ==
    [][\A k \in calls :
          GetLogsRealize(k) =>
              /\ DeepColl(k.loc)' = DeepColl(k.loc)
              /\ DeepColl(records[1])' = DeepColl(records[1])
              /\ \E r \in returned' \ returned :
                    /\ r.coll.len = k.loc.len
                    /\ \A i \in 1..k.loc.len :
                          LET src == Elems(recMem', k.loc)[i]
                              again == Realize(attrMem', opMem', src)
                          IN RealizedValue(again.mem, again.rec)
                                 = RealizedValue(attrMem', Elems(recMem', r.coll)[i])]_vars

\* GetLogs returned a record realized from a journal that binds an attribute
\* and from an attribute of its own, and the stored record still has only
\* its own attribute
C9_Witness ==
    \E r \in GetLogsResults :
        \E i \in 1..r.coll.len :
            LET rec == RecordsOf(r)[i]
                src == Elems(recMem, records[1])[i]
            IN /\ src.Message = rec.Message
               /\ src.Attrs.len = 1
               /\ rec.Attrs.len >= 2

\* the journal a chain of derive calls is to leave
JournalOf(ds) ==
    [i \in 1..Len(ds) |-> [Type |-> ds[i].kind, Attrs |-> ds[i].attrs, Group |-> ds[i].name]]

\* the journal a collector holds now
Journal(c) == DeepOps(collectors[c].sequence)

\* C6: every derived collector holds its parent's journal followed by one
\* operation, and keeps the journal it was derived with whatever is derived
\* from its parent, its siblings or itself afterwards; a stored record keeps
\* the journal of the collector that captured it as it was at the capture.
C6_JournalCloneOnWrite ==
    /\ \A c \in Collectors :
          /\ Journal(c) = JournalOf(collectors[c].ref.calls)
          /\ collectors[c].parent > 0 =>
                LET pj == Journal(collectors[c].parent)
                IN /\ Len(Journal(c)) = Len(pj) + 1
                   /\ SubSeq(Journal(c), 1, Len(pj)) = pj
    /\ \A i \in 1..records[1].len :
          LET rec == Elems(recMem, records[1])[i]
          IN DeepOps(rec.Sequence) = JournalOf(captured[rec.Message].ref.calls)

\* two children of a derived collector, the second derived after a record
\* was captured through their parent and stored
C6_Witness ==
    \E a, b \in Collectors :
        /\ a < b
        /\ collectors[a].parent = collectors[b].parent
        /\ collectors[a].parent > 1
        /\ \E i \in 1..records[1].len :
              LET m == Elems(recMem, records[1])[i].Message
              IN /\ captured[m].c = collectors[a].parent
                 /\ captured[m].colls < b

\* C7: every collector writes to the store of the root; the store holds the
\* records of all branches in the order they were appended; and GetLogs of
\* the root, once the captures have returned, gives every captured record in
\* that order, each with the journal of the branch that captured it.
C7_SharedStore ==
    /\ \A c \in Collectors : storeOf(c) = storeOf(1)
    /\ Messages(records[1]) = history
    /\ \A r \in GetLogsResults :
          /\ MessagesOf(r) = history
          /\ Range(MessagesOf(r)) = DOMAIN captured
          /\ \A i \in 1..r.coll.len :
                LET rec == RecordsOf(r)[i]
                IN DeepOps(rec.Sequence) = JournalOf(captured[rec.Message].ref.calls)

\* GetLogs of the root returned two records captured through two different
\* collectors, one of them derived, the one captured second stored first
C7_Witness ==
    \E r \in GetLogsResults :
        /\ r.coll.len = 2
        /\ MessagesOf(r) = << 2, 1 >>
        /\ captured[1].c # captured[2].c
        /\ captured[1].c > 1
        /\ captured[1].ref.calls # captured[2].ref.calls

\* what a GetAll beginning now would return, with the slices of its records
\* followed
GetAllDeep == DeepColl(records[1])

\* C10: no edit a caller makes to a collection GetAll returned (an element
\* replaced or edited, an entry of an element's own attributes or journal
\* overwritten) changes what a later GetAll returns, and no later step of
\* Append or cleanup changes a collection that was returned.
C10_GetAllDefensiveCopy ==
    [][/\ edits' # edits => GetAllDeep' = GetAllDeep
       /\ edits' = edits =>
             \A r \in returned : DeepColl(r.coll)' = DeepColl(r.coll)]_vars

\* what does hold of the copy: the elements are the caller's own (editing or
\* replacing one leaves the store as it was) and the store's later steps
\* leave a returned collection as it was
GetAllCopiesElements ==
    [][/\ (\E r \in returned, i \in 0..1 : EditElement(r, i)) => GetAllDeep' = GetAllDeep
       /\ edits' = edits =>
             \A r \in returned : DeepColl(r.coll)' = DeepColl(r.coll)]_vars

\* C11: no GetAll of an initialized store returns a nil collection, whether
\* the store is empty, a policy has removed every record, or the policy has
\* itself returned nil.
C11_GetAllNeverNil ==
    \A r \in returned : r.kind = "GetAll" => ~IsNil(r.coll)

\* the records of the store before and after a step
StoredNow == Elems(recMem, records[1])
StoredNext == Elems(recMem', records'[1])

\* C12: when the max-age(D) policy has run at time T, every record it kept
\* has a timestamp after T - D and every record it removed has not, in
\* whatever order the timestamps of the stored records were.
C12_MaxAgeKeepsExactlyFresh ==
    [][(cfg.cleanup.kind = "maxAge" /\ \E k \in calls : SyncCleanupRun(k)) =>
          /\ \A i \in DOMAIN StoredNext : StoredNext[i].Time > now - cfg.cleanup.k
          /\ \A i \in DOMAIN StoredNow :
                (\A j \in DOMAIN StoredNext : StoredNext[j].Message # StoredNow[i].Message)
                    => StoredNow[i].Time <= now - cfg.cleanup.k]_vars

\* the record of capture m as it was appended, its slices aside
AppendedRecord(m) ==
    LET ev == captured[m].ev
    IN MkRecord(ev.Time, ev.Level, ev.Message, ev.PC, ZeroSlice, ZeroSlice)

\* the messages of what the configured policy returns for the records of
\* the messages ms, held in a slice of their own
PolicyOf(ms) ==
    LET a == Alloc(recMem, Len(ms), [i \in 1..Len(ms) |-> AppendedRecord(ms[i])])
        out == cleanupFunc(cfg.cleanup, a.mem, [arr |-> a.arr, off |-> 0, len |-> Len(ms)], now)
        rs == Elems(out.mem, out.s)
    IN [i \in 1..Len(rs) |-> rs[i].Message]

\* the store as it was before the newest append
StoreBeforeLast ==
    SelectSeq(SubSeq(history, 1, Len(history) - 1), LAMBDA m : m \notin dropped)

\* C13: with a policy and synchronous cleanup, an Append made with nothing
\* else in flight returns from the inline policy invocation and nowhere
\* else, and leaves the store equal to the policy applied to the store as
\* it was followed by the new record.
C13_SyncCleanupInline ==
    [][\A k \in Appending :
          (calls = {k} /\ calls' = {}) =>
              /\ k.pc = "cleanup_run"
              /\ Len(history) > 0 /\ history[Len(history)] = k.rec.Message
              /\ Messages(records[1])' = PolicyOf(Append(StoreBeforeLast, k.rec.Message))]_vars

\* an Append has returned after its inline cleanup removed a record that
\* was stored before it
C13_Witness ==
    /\ calls = {}
    /\ Len(history) >= 2
    /\ history[1] \in dropped
    /\ records[1].len >= 1

\* C14: with asynchronous max-count(K) cleanup and the context not
\* cancelled, once the Append calls have stopped the worker eventually runs
\* the policy on a store that holds every record appended, so that from
\* some point on the store is the K newest of all the records appended.
C14_AsyncCleanupEventually ==
    <>[](Appending = {}) => <>[](Messages(records[1]) = LastN(history, cfg.cleanup.k))

\* two records were appended, and the worker has consumed the request,
\* waited for the timer, removed the record over the limit and is idle again
C14_Witness ==
    /\ cfg.cleanup.k = 1
    /\ Len(history) = 2
    /\ calls = {}
    /\ Messages(records[1]) = << history[2] >>
    /\ wpc[Spawned] = "select" /\ timer[Spawned] = "stopped" /\ cleanupCh = 0

\* in asynchronous mode: no Append is ever in performCleanup; the store
\* loses records only in the worker's performCleanup; the worker enters
\* performCleanup only by receiving from a timer that has fired; and a
\* signal it consumes leaves the timer armed for a whole period again
DebouncedCleanupOnly ==
    [][/\ \A k \in calls' : k.pc \notin {"cleanup_lock", "cleanup_run"}
       /\ dropped' # dropped => WorkerCleanupRun(Spawned)
       /\ (wpc[Spawned] # "cleanup_lock" /\ wpc'[Spawned] = "cleanup_lock")
             => timer[Spawned] = "fired" /\ timer'[Spawned] = "stopped"
       /\ WorkerSignal(Spawned) => timer'[Spawned] = "armed"]_vars

\* C15: in asynchronous mode the policy is invoked by the worker only, only
\* after the timer armed by the last signal it consumed has fired, and
\* exactly once for every fire of the timer.
C15_PolicyOncePerTimerFire ==
    [][/\ \A k \in calls' : k.pc \notin {"cleanup_lock", "cleanup_run"}
       /\ dropped' # dropped => WorkerCleanupRun(Spawned)
       /\ (wpc[Spawned] # "cleanup_lock" /\ wpc'[Spawned] = "cleanup_lock")
             => timer[Spawned] = "fired" /\ timer'[Spawned] = "stopped"
       /\ WorkerSignal(Spawned) => timer'[Spawned] = "armed"
       /\ WorkerCleanupRun(Spawned) => Invokes(1)]_vars

\* the invocations of StartCleanupWorker that are inside the for loop
InLoop == {w \in Starts : wpc[w] \in {"select", "cleanup_lock", "cleanup_run"}}

\* C16: once the context is cancelled the cleanup policy is never invoked
\* again on the store, neither by a worker nor inline by an Append, whatever
\* signals are pending and whatever the state of the timer.
C16_NoCleanupAfterCancel ==
    [][ctxDone =>
          /\ \A w \in Starts : ~(WorkerCleanupRun(w) /\ Invokes(1))
          /\ \A k \in calls' : k.pc \notin {"cleanup_lock", "cleanup_run"}]_vars

\* C17: at most one invocation of StartCleanupWorker is inside the loop at
\* any time, only an invocation inside the loop has a timer that is armed
\* or has fired, the running flag is set exactly while an invocation is in
\* the loop, and an invocation that finds the flag set returns without
\* entering the loop.
C17_SingleWorker ==
    /\ [](/\ Cardinality(InLoop) <= 1
          /\ \A w \in Starts : timer[w] # "stopped" => w \in InLoop
          /\ asyncCleanupRunning <=> InLoop # {})
    /\ [][\A w \in Starts :
            wpc[w] = "start" /\ asyncCleanupRunning /\ wpc'[w] # "start"
               => wpc'[w] = "returned" /\ timer'[w] = "stopped"]_vars

\* an invocation has returned at the CompareAndSwap while another one is in
\* the loop with its timer armed
C17_Witness ==
    \E w, v \in Starts :
        /\ wpc[w] = "returned"
        /\ wpc[v] = "select" /\ timer[v] = "armed"

\* a policy invocation is in progress: its goroutine is inside
\* performCleanup holding the store's lock
CleanupRunning ==
    \/ \E w \in Starts : wpc[w] = "cleanup_run"
    \/ \E j \in calls : j.pc = "cleanup_run"

\* C18: no Append call is ever waiting for a policy invocation to finish:
\* none waits for the lock while a cleanup holds it, and none is itself
\* held inside performCleanup before it returns.
C18_AppendNeverWaitsForCleanup ==
    \A k \in calls :
        /\ k.pc = "append_lock" => ~CleanupRunning
        /\ k.pc # "cleanup_run"

\* the goroutines inside the store on the exclusive side: a call between
\* Append's Lock and Unlock or inside performCleanup's, or a worker inside
\* performCleanup's (a call is named by its id, a worker as [w |-> itself])
WritersInside ==
    {[id |-> k.id] : k \in At("append_write") \cup At("cleanup_run")}
        \cup {[w |-> w] : w \in {v \in Starts : wpc[v] = "cleanup_run"}}

\* the calls inside the store on the shared side: between GetAll's RLock
\* and RUnlock
ReadersInside == At("getall_clone")

\* C19: never are two writers, or a writer and a reader, inside the store
\* at once, and what a GetAll returns is the content the store had, with
\* no writer inside, when it was read.
C19_ReaderWriterExclusion ==
    /\ [](/\ Cardinality(WritersInside) <= 1
          /\ WritersInside # {} => ReadersInside = {})
    /\ [][\A r \in returned' \ returned :
            r.kind = "GetAll" =>
               /\ WritersInside = {}
               /\ MessagesOf(r)' = Messages(records[1])]_vars

\* the worker is running the policy while an Append and a GetAll wait for
\* the lock
C19_Witness ==
    /\ wpc[Spawned] = "cleanup_run"
    /\ At("append_lock") # {}
    /\ At("getall_rlock") # {}

\* the replays that were given a handler and a context already cancelled
CancelledReplays ==
    {r \in returned : r.kind = "PlayLogs" /\ r.ctx0 # NoError /\ r.err # HandlerIsNil}

\* C20: a replay with a context that is already cancelled returns the
\* cancellation error and has forwarded none or a strict prefix of the
\* records of the store, whatever the store holds.
C20_CancelledReplayReturnsError ==
    \A r \in CancelledReplays :
        /\ r.err = r.ctxErr
        /\ r.at = 0 \/ r.at < r.coll.len

\* the same for a store that holds a record: the replay returns the
\* cancellation error and has forwarded nothing
CancelledReplayOfRecords ==
    \A r \in CancelledReplays :
        r.coll.len > 0 => r.err = r.ctxErr /\ r.at = 0

\* the replays: in progress, and returned
Replaying == {k \in calls : k.op = "PlayLogs"}
ReplayResults == {r \in returned : r.kind = "PlayLogs"}

\* the messages of the events replay id has given the target, in order
ForwardedBy(id) ==
    LET mine == SelectSeq(played, LAMBDA p : p.by = id)
    IN [j \in 1..Len(mine) |-> mine[j].ev.Message]

\* the first n messages of the records a replay ranges over
PrefixOf(coll, n) == SubSeq(Messages(coll), 1, n)

\* C21: a context that ends while a replay is in progress does not stop a
\* Handle call that was made (the replay goes on with what that call
\* returns); at the next record the replay returns the context's error
\* without giving the target that record or any later one; and what was
\* forwarded stays forwarded: at every moment, and at the return, it is a
\* prefix of the records in store order.
C21_CancelAtRecordBoundary ==
    /\ [](/\ \A k \in Replaying :
               /\ k.pc = "play_handle" => ForwardedBy(k.id) = PrefixOf(k.loc, k.i + 1)
               /\ k.pc = "play" => ForwardedBy(k.id) = PrefixOf(k.loc, k.i)
          /\ \A r \in ReplayResults :
               r.err \in {Canceled, DeadlineExceeded} =>
                   /\ r.err = r.ctxErr
                   /\ r.at < r.coll.len
                   /\ ForwardedBy(r.id) = PrefixOf(r.coll, r.at))
    /\ [][/\ played = SubSeq(played', 1, Len(played))
          /\ \A k \in Replaying :
               k.ctxErr # NoError /\ k \notin calls' =>
                   /\ k.pc = "play_handle" =>
                         \/ \E k2 \in calls' : k2 = [k EXCEPT !.pc = "play", !.i = k.i + 1]
                         \/ \E r \in returned' \ returned :
                               r.id = k.id /\ r.err \notin {NoError, k.ctxErr}
                   /\ (k.pc = "play" /\ k.i < k.loc.len) =>
                         /\ played' = played
                         /\ \E r \in returned' \ returned :
                               r.id = k.id /\ r.err = k.ctxErr /\ r.at = k.i]_vars

\* a replay whose context was live when it began has forwarded one record
\* of three, the context was cancelled, and it returned the cancellation
\* error at the second record
C21_Witness ==
    \E r \in ReplayResults :
        /\ r.ctx0 = NoError /\ r.err = Canceled
        /\ r.at = 1 /\ r.coll.len = 3
        /\ ForwardedBy(r.id) = PrefixOf(r.coll, 1)

\* the errors a target handler's Handle returns
HandlerErrors == {UnexpectedEOF}

\* C22: when the Handle call for the i-th record returns an error the
\* replay returns that error at once; the records before the i-th and the
\* i-th itself have been given to the target once each, in order, and no
\* later record is given to it, then or afterwards.
C22_ReplayFailFast ==
    /\ [](\A r \in ReplayResults :
             r.err \in HandlerErrors =>
                 /\ r.at < r.coll.len
                 /\ ForwardedBy(r.id) = PrefixOf(r.coll, r.at + 1))
    /\ [][\A k \in Replaying, err \in HandlerErrors :
             PlayHandled(k, err) =>
                 /\ k \notin calls' /\ \A k2 \in calls' : k2.id # k.id
                 /\ played' = played
                 /\ \E r \in returned' \ returned :
                       r.id = k.id /\ r.err = err /\ r.at = k.i]_vars

\* of three records the first was handled, the Handle call for the second
\* returned an error, and the replay returned it; the third was not given
C22_Witness ==
    \E r \in ReplayResults :
        /\ r.err = UnexpectedEOF
        /\ r.at = 1 /\ r.coll.len = 3
        /\ ForwardedBy(r.id) = PrefixOf(r.coll, 2)

\* what replay id has given the target, in order
GivenBy(id) == SelectSeq(played, LAMBDA p : p.by = id)

\* C23: a replay that returned nil has called Handle once for every record
\* it read from the store, in store order, each call on a handler built by
\* the derive calls of the chain that captured that very record, and with
\* that record's event.
C23_ReplayOncePerRecordInOrder ==
    \A r \in ReplayResults :
        r.err = NoError =>
            /\ r.at = r.coll.len
            /\ Len(GivenBy(r.id)) = r.coll.len
            /\ \A j \in 1..r.coll.len :
                  LET p == GivenBy(r.id)[j]
                      m == Messages(r.coll)[j]
                  IN /\ p.ev = captured[m].ev
                     /\ p.calls = captured[m].ref.calls

\* a successful replay of two records captured through chains of different
\* depth
C23_Witness ==
    \E r \in ReplayResults :
        /\ r.err = NoError
        /\ r.coll.len = 2
        /\ GivenBy(r.id)[1].calls # GivenBy(r.id)[2].calls

\* C24: PlayLogsCtx with a nil handler returns the handler-is-nil error in
\* the call itself, whatever the store holds and whether or not the context
\* is cancelled: the store is not locked, read or changed, and nothing is
\* given to any handler, then or afterwards.
C24_NilHandlerRefused ==
    /\ [](\A r \in ReplayResults :
             r.err = HandlerIsNil => r.coll = NilSlice /\ GivenBy(r.id) = <<>>)
    /\ [][\A ctxErr \in {NoError, Canceled} :
             PlayLogsCtx(1, ctxErr, NoHandler) =>
                 /\ \E r \in returned' \ returned :
                       r.err = HandlerIsNil /\ r.ctx0 = ctxErr
                 /\ calls' = calls
                 /\ <<records, recMem, mu, played>>' = <<records, recMem, mu, played>>]_vars

\* a store of two records; PlayLogsCtx was refused for a nil handler once
\* with a live and once with a cancelled context
C24_Witness ==
    /\ records[1].len = 2
    /\ \E r, q \in ReplayResults :
          /\ r.err = HandlerIsNil /\ r.ctx0 = NoError
          /\ q.err = HandlerIsNil /\ q.ctx0 = Canceled

\* the Handle calls that have returned
HandleResults == {r \in returned : r.kind = "Handle"}

\* what Handle call id has given the downstream handler
ForwardedTo(id) == SelectSeq(live, LAMBDA p : p.by = id)

\* C25: a Handle call on a collector that has a downstream handler gives
\* that handler the event it was given itself, once, before it returns, and
\* returns what the handler's Handle returned, nil or an error; on a
\* collector with no downstream handler it returns nil; in both cases the
\* record has been stored.
C25_HandleForwardsOnce ==
    /\ [](/\ \A r \in HandleResults :
               /\ r.id \in Range(history)
               /\ IF collectors[r.c].handler.nil
                  THEN ForwardedTo(r.id) = <<>> /\ r.err = NoError
                  ELSE /\ Len(ForwardedTo(r.id)) = 1
                       /\ ForwardedTo(r.id)[1].ev = captured[r.id].ev
                       /\ ForwardedTo(r.id)[1].calls = collectors[r.c].handler.calls
          /\ \A k \in Appending : k.pc # "forward" => ForwardedTo(k.id) = <<>>)
    /\ [][\A k \in Appending, err \in {NoError, UnexpectedEOF} :
             HandleForward(k, err) =>
                 \E r \in returned' \ returned : r.id = k.id /\ r.err = err]_vars

\* a Handle call on a derived collector returned the error of the
\* downstream handler, and its record is in the store
C25_Witness ==
    \E r \in HandleResults :
        /\ r.err = UnexpectedEOF
        /\ r.c > 1
        /\ r.id \in Range(Messages(records[1]))

\* Handle gives NewRecord the address of its own parameter, so NewRecord
\* never returns nil to it and no Handle call returns the record-creation
\* error
RecordCreationNeverFails ==
    /\ \A r \in HandleResults : r.err # RecordCreationFailed
    /\ \A k \in Appending : k.rec # NewRecordAt(attrMem, NilSlice, NilPointer).rec

\* C27: WithAttrs with no attributes and WithGroup with the empty name
\* return the receiver itself and change nothing: no collector is made, no
\* journal and no downstream handler is derived. So no journal and no
\* downstream handler ever holds an empty operation, and a derived
\* collector's journal is one operation longer than its parent's.
C27_EmptyDeriveIsNoOp ==
    /\ [](\A c \in Collectors :
             /\ \A i \in DOMAIN Journal(c) :
                   LET op == Journal(c)[i]
                   IN IF op.Type = "attrs" THEN op.Attrs # <<>> ELSE op.Group # ""
             /\ \A i \in DOMAIN collectors[c].handler.calls :
                   LET d == collectors[c].handler.calls[i]
                   IN IF d.kind = "attrs" THEN d.attrs # <<>> ELSE d.name # ""
             /\ collectors[c].parent > 0 =>
                   Len(Journal(c)) = Len(Journal(collectors[c].parent)) + 1)
    /\ [][\A c \in Collectors :
             (WithAttrs(c, <<>>, 0) \/ WithGroup(c, "", 0)) =>
                 /\ lastDerive' = [recv |-> c, got |-> c]
                 /\ collectors' = collectors
                 /\ <<attrMem, opMem>>' = <<attrMem, opMem>>]_vars

\* an empty derivation was made on a derived collector that has a
\* downstream handler, and returned that collector
C27_Witness ==
    /\ lastDerive.got = lastDerive.recv
    /\ lastDerive.got > 1
    /\ ~collectors[lastDerive.got].handler.nil
    /\ Len(collectors) = 2

\* the answers Enabled has given
EnabledResults == {r \in returned : r.kind = "Enabled"}

\* C28: Enabled on the root collector or on any collector derived from it
\* answers, for a level, what the handler the root was built with answers
\* for that level (the level is at or above the handler's), and true for
\* every level when the root was built with no handler.
C28_EnabledDelegates ==
    \A r \in EnabledResults :
        r.enabled = IF collectors[1].handler.nil THEN TRUE
                    ELSE r.at >= collectors[1].handler.level

\* a collector derived from one whose handler is at level Warn answered
\* false for Info and true for Warn
C28_Witness ==
    \E r, q \in EnabledResults :
        /\ r.c > 1 /\ r.at = LevelInfo /\ ~r.enabled
        /\ q.c = r.c /\ q.at = LevelWarn /\ q.enabled

\* the replays that were given a handler: in the loop at record k.i + 1
\* (Iterating), and ended
Iterating == {k \in Replaying : k.pc \in {"play", "play_handle"}}
Ended == {r \in ReplayResults : r.err # HandlerIsNil}

\* C29: a replay that was given a handler ends, and ends once, in one of
\* three ways: all records forwarded and nil returned (Done), the context's
\* error returned before a record (Canceled), or the error of the Handle
\* call for a record returned (HandlerError). While it runs its index stays
\* or grows by one, by one exactly when a Handle call has returned nil, and
\* it ends with nil only from the index of the last record.
C29_ReplayStateMachine ==
    /\ (Replaying # {}) ~> (Replaying = {})
    /\ [](/\ Cardinality(Replaying) <= 1
          /\ \A k \in Replaying : \A r \in ReplayResults : r.id # k.id
          /\ \A r, q \in ReplayResults : r.id = q.id => r = q
          /\ \A r \in Ended :
                \/ r.err = NoError /\ r.at = r.coll.len
                \/ r.err \in {Canceled, DeadlineExceeded} /\ r.at < r.coll.len
                \/ r.err \in HandlerErrors /\ r.at < r.coll.len
          /\ \A k \in Iterating : k.i <= k.loc.len)
    /\ [][\A k \in Iterating :
             \/ \E k2 \in Iterating' :
                   /\ k2.id = k.id
                   /\ k2.i = IF k.pc = "play_handle" /\ k2.pc = "play" THEN k.i + 1
                             ELSE k.i
             \/ \E r \in Ended' \ Ended : r.id = k.id /\ r.at = k.i]_vars

\* the three ends in one run: a replay of a store of one record returned
\* nil, one returned the cancellation error and one the handler's error
C29_Witness ==
    \E r, q, t \in Ended :
        /\ r.err = NoError /\ r.coll.len = 1
        /\ q.err = Canceled
        /\ t.err = UnexpectedEOF

\* C30: once the context is cancelled the invocation of StartCleanupWorker
\* that is in the loop, if any, leaves it, whatever it was doing; it leaves
\* only by the cancellation, with its timer stopped and the
\* running flag cleared, and its timer stays stopped.
C30_WorkerExitsOnCancel ==
    /\ ctxDone ~> (InLoop = {})
    /\ [](\A w \in Starts : wpc[w] = "exited" => ctxDone /\ timer[w] = "stopped")
    /\ [][\A w \in Starts :
             (w \in InLoop /\ w \notin InLoop') =>
                 /\ ctxDone
                 /\ wpc'[w] = "exited"
                 /\ timer'[w] = "stopped"
                 /\ ~asyncCleanupRunning']_vars

\* the worker has ended after removing a record in a cleanup, leaving a
\* request in the channel that nobody will receive
C30_Witness ==
    /\ wpc[Spawned] = "exited"
    /\ ~asyncCleanupRunning
    /\ dropped # {}
    /\ cleanupCh = 1

\* C31: the cleanup-request queue has depth 1. At most one request is ever
\* pending; an Append at its send is never blocked, and its send leaves one
\* request pending whether or not one was pending before (a send onto a
\* pending request is dropped) while the Append goes on; the worker's
\* wake-up on the queue takes all that a burst of appends left, one
\* request, and arms the timer once; and the worker enters performCleanup
\* only from a timer that has fired, which stops it: one re-arm, at most one
\* policy invocation.
C31_DepthOneQueue ==
    /\ [](/\ cleanupCh \in 0..1
          /\ \A k \in calls : k.pc = "trigger_send" => ENABLED TriggerSend(k))
    /\ [][/\ \A k \in calls :
              (k.pc = "trigger_send" /\ k \notin calls') =>
                  /\ cleanupCh' = 1
                  /\ \A j \in calls' : j.id # k.id
                  /\ HandleResult(k, NoError) \in returned'
          /\ cleanupCh' < cleanupCh =>
                  /\ cleanupCh' = 0
                  /\ wpc[Spawned] = "select" /\ wpc'[Spawned] = "select"
                  /\ timer'[Spawned] = "armed"
          /\ (timer[Spawned] # "armed" /\ timer'[Spawned] = "armed") =>
                  cleanupCh' < cleanupCh
          /\ (timer[Spawned] # "fired" /\ timer'[Spawned] = "fired") =>
                  timer[Spawned] = "armed"
          /\ (wpc[Spawned] # "cleanup_lock" /\ wpc'[Spawned] = "cleanup_lock") =>
                  timer[Spawned] = "fired" /\ timer'[Spawned] = "stopped"
          /\ (wpc[Spawned] = "cleanup_run" /\ wpc'[Spawned] # "cleanup_run") =>
                  wpc'[Spawned] = "select"]_vars

\* a burst of two appends before the worker has woken once: both calls have
\* returned, and one request is pending
C31_Witness ==
    /\ wpc[Spawned] = "start"
    /\ Len(history) = 2
    /\ calls = {}
    /\ Cardinality({r \in returned : r.kind = "Handle" /\ r.err = NoError}) = 2
    /\ cleanupCh = 1

\* the operation has one of the two types the collector writes
Known(op) == op.Type \in {"attrs", "group"}

\* record r with the operations of other types removed from its journal
Stripped(r) ==
    LET a == Literal(opMem, SelectSeq(Elems(opMem, r.Sequence), Known))
    IN [om |-> a.mem, rec |-> [r EXCEPT !.Sequence = a.s]]

\* C32: an operation whose type is neither "attrs" nor "group" is skipped
\* by Realize and by replay, without error. What GetLogs returns for a
\* stored record is what Realize returns for the record with those
\* operations removed from its journal (the journal carried along being
\* the record's own), and a replay gives the handler, for every record,
\* what it gives it for the record with those operations removed, and
\* returns nil.
C32_UnknownOperationSkipped ==
    /\ \A r \in GetLogsResults :
          \A i \in 1..r.coll.len :
             LET raw == Elems(recMem, records[1])[i]
                 got == RecordsOf(r)[i]
                 st == Stripped(raw)
                 z == Realize(attrMem, st.om, st.rec)
             IN /\ got.Sequence = raw.Sequence
                /\ [got EXCEPT !.Attrs = NilSlice, !.Sequence = NilSlice]
                      = [z.rec EXCEPT !.Attrs = NilSlice, !.Sequence = NilSlice]
                /\ Elems(attrMem, got.Attrs) = Elems(z.mem, z.rec.Attrs)
    /\ \A r \in ReplayResults :
          /\ r.err = NoError
          /\ Len(GivenBy(r.id)) = r.coll.len
          /\ \A i \in 1..r.coll.len :
                LET raw == RecordsOf(r)[i]
                    kept == SelectSeq(Elems(opMem, raw.Sequence), Known)
                IN GivenBy(r.id)[i] =
                      Submitted(r, HHandle(ReplaySequence(BaseHandler, kept, 1),
                                           ReplayEvent(raw)))

\* the record of the test, with an operation of another type between an
\* attribute binding and a group, has been realized by GetLogs and replayed
C32_Witness ==
    \E r \in GetLogsResults, q \in ReplayResults :
        /\ r.coll.len = 1 /\ q.coll.len = 1
        /\ RecordsOf(r)[1].Attrs.len = 2
        /\ RecordsOf(q)[1].Sequence.len = 3
        /\ [i \in 1..3 |-> Elems(opMem, RecordsOf(q)[1].Sequence)[i].Type]
              = << "attrs", "other", "group" >>

\* record rec is as the Handle call with its message captured it: the
\* attributes of the event and the journal of the chain, nothing else
Raw(rec) ==
    /\ Elems(attrMem, rec.Attrs) = captured[rec.Message].ev.attrs
    /\ DeepOps(rec.Sequence) = JournalOf(captured[rec.Message].ref.calls)

\* C33: GetLogs returns one realized record for every record the store
\* held at one moment (its GetAll), in store order, each what Realize gives
\* for the stored record, and the store goes on holding the raw records:
\* whatever GetLogs calls have been made, the records of the store and of
\* every collection GetAll returns have the attributes of their own only
\* and the journal they were captured with.
C33_GetLogsLeavesRawRecords ==
    /\ \A r \in GetLogsResults :
          /\ r.coll.len = r.at
          /\ MessagesOf(r) = SubSeq(history, 1, r.at)
          /\ \A i \in 1..r.coll.len :
                LET z == Realize(attrMem, opMem, StoredNow[i])
                IN /\ RealizedValue(attrMem, RecordsOf(r)[i])
                         = RealizedValue(z.mem, z.rec)
                   /\ DeepOps(RecordsOf(r)[i].Sequence) = DeepOps(StoredNow[i].Sequence)
    /\ Messages(records[1]) = history
    /\ \A i \in 1..records[1].len : Raw(StoredNow[i])
    /\ \A r \in returned :
          r.kind = "GetAll" =>
              /\ MessagesOf(r) = SubSeq(history, 1, r.at)
              /\ \A i \in 1..r.coll.len : Raw(RecordsOf(r)[i])

\* GetLogs returned two records, the second with an attribute of the chain
\* before its own, and a GetAll made afterwards returned the second with
\* its own attribute only
C33_Witness ==
    \E r \in GetLogsResults, q \in returned :
        /\ q.kind = "GetAll" /\ q.id < r.id
        /\ r.coll.len = 2 /\ q.coll.len = 2
        /\ RecordsOf(r)[2].Attrs.len = 2
        /\ RecordsOf(q)[2].Attrs.len = 1

\* the goroutine holding the lock of the store has a step it can take
HolderCanStep ==
    \/ \E j \in calls :
          /\ j.id \in mu[1].writers \cup mu[1].readers
          /\ ENABLED StepOf(j)
    \/ /\ Worker \in mu[1].writers
       /\ ENABLED WorkerCleanupRun(Spawned)

\* C34: the store never deadlocks. Whatever Append, GetAll, GetLogs and
\* replay calls are in progress, with the worker running or cancelled,
\* every call has a step it can take or is waiting for the lock of the
\* store while the goroutine holding the lock has one; and so for the worker
\* waiting for the lock. An Append waiting to run its inline cleanup does not
\* hold the lock, nor does the worker while it waits for it, and an Append
\* at its send on the request queue can always take it.
C34_NoDeadlock ==
    /\ \A k \in calls :
          /\ \/ ENABLED StepOf(k)
             \/ /\ k.pc \in {"append_lock", "cleanup_lock", "getall_rlock"}
                /\ HolderCanStep
          /\ k.pc \in {"append_lock", "cleanup_lock", "getall_rlock"} =>
                k.id \notin mu[1].writers \cup mu[1].readers
          /\ k.pc = "trigger_send" => ENABLED TriggerSend(k)
    /\ wpc[Spawned] = "cleanup_lock" =>
          /\ Worker \notin mu[1].writers
          /\ ENABLED WorkerCleanupLock(Spawned) \/ HolderCanStep
    /\ wpc[Spawned] = "cleanup_run" => ENABLED WorkerCleanupRun(Spawned)
    /\ (wpc[Spawned] = "select" /\ ctxDone) => ENABLED WorkerCancel(Spawned)

\* an Append has added its record and waits to run its cleanup inline while
\* another Append holds the lock
C34_Witness ==
    /\ At("cleanup_lock") # {}
    /\ At("append_write") # {}
    /\ records[1].len = 1

\* the Append calls that have added their record and have not finished the
\* cleanup they run inline
CleanupPending == At("cleanup_lock") \cup At("cleanup_run")

\* C35: in synchronous mode with max-count(K) the append and the cleanup
\* of an Append are two critical sections: between them the call does not
\* hold the lock. The store holds at most K records more than there are
\* Append calls between the two, and so does what a GetAll returns, counted
\* when it reads.
C35_SyncMaxCountBound ==
    /\ []((~cfg.async /\ cfg.cleanup.kind = "maxSize") =>
            /\ records[1].len <= cfg.cleanup.k + Cardinality(CleanupPending)
            /\ \A k \in At("cleanup_lock") : k.id \notin mu[1].writers)
    /\ [][(~cfg.async /\ cfg.cleanup.kind = "maxSize") =>
             \A r \in returned' \ returned :
                r.kind = "GetAll" =>
                    r.coll.len <= cfg.cleanup.k + Cardinality(CleanupPending)]_vars

\* a GetAll between the two critical sections of an Append has returned
\* one record more than the limit
C35_Witness ==
    /\ ~cfg.async /\ cfg.cleanup.kind = "maxSize"
    /\ \E r \in returned : r.kind = "GetAll" /\ r.coll.len = cfg.cleanup.k + 1

\* what a target is given for the records rs, in order, by any replay
Forwarding(rs) ==
    [i \in 1..Len(rs) |->
        LET x == HHandle(ReplaySequence(BaseHandler, Elems(opMem, rs[i].Sequence), 1),
                         ReplayEvent(rs[i]))
        IN [calls |-> x.calls, ev |-> x.ev, out |-> x.out]]

\* what replay id has given its target, in order
ForwardedOf(id) ==
    [i \in 1..Len(GivenBy(id)) |->
        [calls |-> GivenBy(id)[i].calls, ev |-> GivenBy(id)[i].ev,
         out |-> GivenBy(id)[i].out]]

\* C36: a replay forwards the records of the one snapshot it took when it
\* started, the store's content at that moment: whatever is appended or
\* removed by cleanup while it is in progress, what it has forwarded is at
\* every moment a prefix of that snapshot, and the whole of it when it
\* returns nil. No step of a replay changes the store, so that replays of the
\* same content running together forward the same.
C36_ReplayOfSnapshot ==
    /\ [](/\ \A k \in Replaying :
               k.pc \in {"play", "play_handle"} =>
                   LET n == IF k.pc = "play" THEN k.i ELSE k.i + 1
                   IN /\ n <= k.loc.len
                      /\ ForwardedOf(k.id) =
                            SubSeq(Forwarding(Elems(recMem, k.loc)), 1, n)
          /\ \A r \in ReplayResults :
               /\ r.err = NoError
               /\ ForwardedOf(r.id) = Forwarding(RecordsOf(r))
          /\ \A r, q \in ReplayResults :
               MessagesOf(r) = MessagesOf(q) => ForwardedOf(r.id) = ForwardedOf(q.id))
    /\ [][\A k \in Replaying :
             /\ k \notin calls' =>
                   /\ records' = records
                   /\ GetAllDeep' = GetAllDeep
                   /\ k.pc = "getall_clone" =>
                         \E k2 \in calls' :
                            /\ k2.id = k.id
                            /\ DeepColl(k2.loc)' = GetAllDeep
             /\ (k.pc \in {"play", "play_handle"} /\ k \in calls') =>
                   DeepColl(k.loc)' = DeepColl(k.loc)]_vars

\* a replay is giving its target the record it read, which the cleanup of
\* a later Append has removed from the store since
C36_Witness ==
    \E k \in Replaying :
        /\ k.pc = "play_handle"
        /\ Messages(k.loc) = << 1 >>
        /\ Messages(records[1]) = << 2 >>
        /\ calls = {k}

\* the Handle calls whose downstream Handle has been called and has not
\* returned
Forwarding1 == {k \in Appending : k.pc = "forward"}

\* C37: Handle appends the record to the store before it calls the
\* downstream handler, and a failure of that handler does not undo the
\* append. While the downstream Handle of a call runs, its record has been
\* appended and, unless the cleanup policy has removed it, is in the store
\* and in what a GetAll returns then; the return of the downstream Handle,
\* with an error or without, leaves the store as it is; and the record of a
\* call that has returned, with whatever result, is in the store unless the
\* cleanup policy has removed it.
C37_AppendBeforeForward ==
    /\ [](/\ \A k \in Forwarding1 :
               /\ k.id \in Range(history)
               /\ k.id \in Range(GetAllNow) \cup dropped
          /\ \A r \in HandleResults :
               r.id \in Range(Messages(records[1])) \cup dropped)
    /\ [][/\ \A k \in Forwarding1 :
               k \notin calls' =>
                   /\ records' = records
                   /\ GetAllDeep' = GetAllDeep
                   /\ dropped' = dropped
                   /\ \E r \in returned' \ returned : r.id = k.id /\ r.kind = "Handle"
          /\ \A r \in returned' \ returned :
               r.kind = "GetAll" =>
                   \A k \in Forwarding1 : k.id \in Range(MessagesOf(r)') \cup dropped]_vars

\* a Handle call has returned the error of the downstream handler, its
\* record is in the store, and a GetAll has returned it
C37_Witness ==
    \E r \in HandleResults, q \in returned :
        /\ r.err = UnexpectedEOF
        /\ r.id \in Range(Messages(records[1]))
        /\ q.kind = "GetAll" /\ r.id \in Range(MessagesOf(q))
        /\ calls = {}

\* the positions of the records whose timestamp is after the cutoff of the
\* max-age policy now
Fresh == {i \in DOMAIN StoredNow : StoredNow[i].Time > now - cfg.cleanup.k}

BoundBy(ops) ==
    LET at == SelectSeq(ops, LAMBDA op : op.Type = "attrs")
    IN IF Len(at) = 0 THEN 0 ELSE Len(Elems(attrMem, at[1].Attrs))

OpensGroup(ops) == \E i \in DOMAIN ops : ops[i].Type = "group"

\* the derive calls the operations ops of the two known types stand for
CallsOf(ops) ==
    LET kn == SelectSeq(ops, Known)
    IN [i \in 1..Len(kn) |->
           [kind |-> kn[i].Type,
            attrs |-> IF kn[i].Type = "attrs" THEN Elems(attrMem, kn[i].Attrs) ELSE <<>>,
            name |-> IF kn[i].Type = "group" THEN kn[i].Group ELSE ""]]

\* C39: the record Realize returns carries the journal of its source next
\* to the realized attributes, and Realize applied to it applies that
\* journal again: the result has the attributes the journal binds once
\* more, and differs from the record, exactly when the journal binds an
\* attribute or opens a group over attributes of the record's own. A replay
\* of a realized record that was put in the store makes the derive calls of
\* its journal on the target and gives it the realized attributes.
C39_RealizeNotIdempotent ==
    /\ \A r \in GetLogsResults :
          \A i \in 1..r.coll.len :
             LET z == RecordsOf(r)[i]
                 ops == Elems(opMem, z.Sequence)
                 zz == Realize(attrMem, opMem, z)
                 once == Elems(attrMem, z.Attrs)
                 twice == Elems(zz.mem, zz.rec.Attrs)
             IN /\ z.Sequence = StoredNow[i].Sequence
                /\ Len(twice) = Len(once) + BoundBy(ops)
                /\ (twice # once) <=>
                      \/ BoundBy(ops) > 0
                      \/ OpensGroup(ops) /\ StoredNow[i].Attrs.len > 0
    /\ \A q \in ReplayResults, r \in GetLogsResults :
          \A j \in 1..q.coll.len, i \in 1..r.coll.len :
             LET s == RecordsOf(q)[j]
                 z == RecordsOf(r)[i]
                 p == GivenBy(q.id)[j]
             IN [s EXCEPT !.Message = z.Message] = z =>
                   /\ p.calls = CallsOf(Elems(opMem, z.Sequence))
                   /\ p.ev.attrs = Elems(attrMem, z.Attrs)

\* GetLogs realized a record with a bound attribute, a group and an
\* attribute of its own; the result was appended to the store and replayed:
\* the target was given the bound attribute by the derive call and again in
\* the event
C39_Witness ==
    \E q \in ReplayResults, r \in GetLogsResults :
        /\ q.coll.len = 2 /\ r.coll.len = 1
        /\ [RecordsOf(q)[2] EXCEPT !.Message = 1] = RecordsOf(r)[1]
        /\ RecordsOf(r)[1].Attrs.len = 2
        /\ Len(GivenBy(q.id)) = 2
        /\ Cardinality({n \in DOMAIN GivenBy(q.id)[2].out :
                           GivenBy(q.id)[2].out[n].val = "v"}) = 2

\* The count limit at and below zero: WithMaxSize(k) for k from -2 to 1 on a
\* store with synchronous cleanup, with or without a downstream handler;
\* up to MaxInFlight goroutines log and read the store, and a goroutine
\* whose call panics recovers.
EdgeCfgs ==
    {[cleanup |-> MaxSizeCleanup(k), async |-> FALSE, prealloc |-> DefaultPrealloc] :
        k \in (0 - 2)..1}

InitEdge == \E c \in EdgeCfgs, h \in {NoHandler, BaseHandler} : InitWith(c, h)

NextEdge ==
    \/ /\ CanCall /\ Made < EdgeCalls
       /\ HandleBegin(1, EventOf(Len(captured) + 1, LevelInfo, <<>>), 0)
    \/ \E k \in calls : AppendLock(k)
    \/ \E k \in calls : AppendWrite(k)
    \/ \E k \in calls : SyncCleanupLock(k)
    \/ \E k \in calls : SyncCleanupRun(k)
    \/ \E k \in calls : HandleForward(k, NoError)
    \/ CanCall /\ Made < EdgeCalls /\ ReadBegin("GetAll", 1, NoHandler)
    \/ \E k \in calls : GetAllRLock(k)
    \/ \E k \in calls : GetAllClone(k)

SpecEdge == InitEdge /\ [][NextEdge]_vars

\* the calls a panic ended
PanicResults == {r \in returned : r.kind = "panic"}

\* C40: the count limit k never panics for k >= 0, and for k = 0 the
\* cleanup of every synchronous Append leaves the store empty. For k < 0
\* the policy panics on every non-empty store it is given: the cleanup of
\* every Append ends in the panic, after the record was added, and the call
\* is over with the store lock released, the store as it was with the
\* record in it, and nothing given to the downstream handler; no record is
\* ever removed.
C40_MaxCountTotalFromZero ==
    /\ [](cfg.cleanup.k >= 0 => PanicResults = {} /\ ~Panics(1))
    /\ [](cfg.cleanup.k < 0 =>
            /\ records[1].len > 0 => cleanupPanics(cfg.cleanup, records[1])
            /\ Messages(records[1]) = history
            /\ live = <<>>
            /\ \A r \in PanicResults : r.err = SliceBounds)
    /\ [][\A k \in calls : k.pc = "cleanup_run" /\ k \notin calls' =>
             /\ mu'[1].writers = {}
             /\ cfg.cleanup.k = 0 => records'[1].len = 0
             /\ cfg.cleanup.k < 0 =>
                   /\ k.id \in {r.id : r \in PanicResults'}
                   /\ k.id \notin {r.id : r \in HandleResults'}
                   /\ records'[1] = records[1]
                   /\ \E i \in 1..records'[1].len :
                         Elems(recMem', records'[1])[i] = k.rec]_vars

\* under a limit below zero two Handle calls were ended by the panic, both
\* records are in the store and the lock is free
C40_Witness ==
    /\ cfg.cleanup.k < 0
    /\ Cardinality(PanicResults) = 2
    /\ records[1].len = 2
    /\ mu[1].writers = {}
    /\ calls = {}

====
